---- MODULE Spec2Model ----
(***************************************************************************)
(* Pump-probe dual-spectrometer acquisition (GUI_notrigger.py).            *)
(*                                                                         *)
(* The model has three kinds of processes:                                 *)
(*   - the GUI thread (MainWindow handlers, run one at a time),            *)
(*   - the QThread that executes AcquisitionWorker.run,                    *)
(*   - the two pool threads of the ThreadPoolExecutor that execute         *)
(*     _grab_once on the reference and on the probe spectrometer.          *)
(* Signals emitted by the worker are queued (sigq) and delivered to the    *)
(* GUI thread in order.                                                    *)
(*                                                                         *)
(* SpecLive is the same program under fair scheduling of the worker and   *)
(* pool threads and with every hardware read returning or raising.        *)
(*                                                                         *)
(* SpecCli models the command-line tools: notoriger.py (main,              *)
(* acquire_state, grab_once in two pool threads) and the measurement loop  *)
(* of plot_scan_timing.py, with the times of the events of each read.      *)
(* SpecCtl models the methods of SpectrometerController (SpectroAPP).      *)
(* SpecTiming applies evaluate_timing and the lag calculation to given     *)
(* timestamp lists; SpecCombine applies the absorbance and differential    *)
(* arithmetic to given frames and aggregates.                              *)
(* SpecLib models the spectrum library of OceanDirectApp (SpectroAPP):     *)
(* the dict spectra_data and the tree of data_list under acquire, CSV      *)
(* import, group / ungroup, rename and delete.                             *)
(***************************************************************************)
EXTENDS Naturals, Integers, Sequences, FiniteSets, TLC

\* ------------------------------------------------------------------ bounds
\* largest value of the n_scans spin box, and of N_SCANS of the command-line
\* tools, in the model (the widget allows 1..10000)
MaxScans == 2
\* largest number of acquisitions started in one behaviour
MaxAcq == 3
\* longest timestamp series given to evaluate_timing has MaxIntervals + 1 entries
MaxIntervals == 3
\* largest number of shots in the timestamp lists of a lag calculation
MaxLagShots == 2
\* number of times an analysis is applied to the same inputs
MaxCalls == 2
\* largest number of shots per state in an absorbance calculation
MaxShots == 2
\* longest wavelength axis of the aggregates given to the differential calculation
MaxAxis == 3
\* largest number of items (spectra and groups) created in the tree of the
\* spectrum library in one behaviour
MaxItems == 3
\* largest number of spectrum columns of an imported CSV file
MaxColumns == 1

\* --------------------------------------------------------------- constants
\* max_workers of the ThreadPoolExecutor created by AcquisitionWorker.run
max_workers == 2
\* initial value of the n_scans spin box (N_SCANS_DEFAULT is 200; the model
\* starts the spin box at the low end of its range)
n_scans_minimum == 1

Channels == {"ref", "probe"}

VARIABLES
    \* ---- MainWindow
    ui_state,        \* argument of the last _set_ui_state call
    ui_caller,       \* handler that made the last _set_ui_state call
    spectrometers,   \* keys bound in self.spectrometers
    n_scans,         \* value of n_scans_spinbox
    progress_bar,    \* value of progress_bar
    a_off,           \* OFF aggregate: wl, a_off, ts_off_ref, ts_off_prb
    a_on,            \* ON aggregate: a_on, ts_on_ref, ts_on_prb
    delta_a,         \* what plot_results/save_files were computed from
    report_text,     \* what the report shown in report_text was computed from
    thread_running,  \* self.thread.isRunning()
    gui_pc,          \* "idle", or "reset_wait" while reset_connection blocks in thread.wait()
    closed,          \* closeEvent has been received
    \* ---- AcquisitionWorker (self.worker) and its executor
    worker,          \* label, n_scans, is_running, gen of the current worker
    w_pc,            \* position of the thread that executes run()
    w_i,             \* loop variable i of run()
    ts_ref,          \* list ts_ref of run()
    ts_prb,          \* list ts_prb of run()
    fut,             \* state of fut_ref / fut_prb
    n_reads,         \* number of _grab_once tasks submitted by run(), per channel
    emitted,         \* signals emitted by run() so far, in order
    \* ---- environment
    dev,             \* device handle per channel: "open" or "closed"
    integ,           \* integration time set on the device, in microseconds
    inflight,        \* number of reads submitted and not yet returned, per channel
    active,          \* number of threads that are executing a run()
    sigq,            \* queued signals from the worker to the GUI thread
    acq,             \* number of acquisitions started so far
    cli,             \* notoriger.py: state of main() and of its pool threads
    scan,            \* plot_scan_timing.py: state of main()
    \* ---- units used on their own
    ctl,             \* SpectrometerController object and the devices it opens
    timing,          \* arguments and results of the timing analysis
    combine,         \* arguments and results of the differential calculation
    lib              \* OceanDirectApp: spectra_data, the tree of data_list, counters

\* the variables of the units that are exercised on their own
unit_vars == <<ctl, timing, combine, lib>>

gui_vars == <<ui_state, ui_caller, spectrometers, n_scans, progress_bar, a_off, a_on,
              delta_a, report_text, thread_running, gui_pc, closed>>
worker_vars == <<worker, w_pc, w_i, ts_ref, ts_prb, fut, n_reads, emitted>>
env_vars == <<dev, integ, inflight, active, sigq, acq, cli, scan, unit_vars>>
vars == <<ui_state, ui_caller, spectrometers, n_scans, progress_bar, a_off, a_on,
          delta_a, report_text, thread_running, gui_pc, closed,
          worker, w_pc, w_i, ts_ref, ts_prb, fut, n_reads, emitted,
          dev, integ, inflight, active, sigq, acq, cli, scan, unit_vars>>

\* the variables of the GUI program
session_vars == <<ui_state, ui_caller, spectrometers, n_scans, progress_bar, a_off, a_on,
                  delta_a, report_text, thread_running, gui_pc, closed,
                  worker, w_pc, w_i, ts_ref, ts_prb, fut, n_reads, emitted,
                  dev, integ, inflight, active, sigq, acq>>

\* ------------------------------------------------------------ value shapes
\* self.a_off = self.a_on = None, self.ts_* = None
NoAgg == [label |-> "None", gen |-> 0, ts_ref_list |-> <<>>, ts_probe_list |-> <<>>]
\* nothing plotted / empty report
NoResult == [off |-> NoAgg, on |-> NoAgg]
\* self.worker = None
NoWorker == [label |-> "None", n_scans |-> 0, is_running |-> FALSE, gen |-> 0]
\* integration time of a device before the program has set one
DeviceDefault == 0
\* values of round(integ_ms_spinbox.value() * 1_000) the operator chooses from
IntegMicros == {1000, 2000}

\* times of the events of one read; a shot starts at time 1, 0 is "not yet"
NoRead == [stamp |-> 0, issue |-> 0, ret |-> 0]
\* microseconds per second (datetime resolution of the ISO-8601 timestamps)
UsecPerSec == 1000000
\* host clock, in microseconds, when a command-line tool starts: just before
\* a full second, so that the timestamps of a run differ in their seconds
ClockStart == 999998
\* now_iso(): the host clock as ISO-8601 text with microseconds, kept as
\* its seconds and microseconds fields; every call reads the clock one
\* microsecond later than the call before it
now_iso(clock) == [sec |-> clock \div UsecPerSec, usec |-> clock % UsecPerSec]
\* isoparse(x), as microseconds since the epoch of the clock
isoparse(x) == x.sec * UsecPerSec + x.usec
\* a timestamp variable that was not assigned yet
NoTimestamp == [sec |-> 0, usec |-> 0]
\* nothing returned by acquire_state yet
NoCliResult == [label |-> "None", wl_size |-> 0, A_mean_size |-> 0,
                ts_ref |-> <<>>, ts_prb |-> <<>>]
\* pixel counts a device may have
PixelCounts == {1, 2, 3}

NoFut == [c \in Channels |-> "none"]

\* the three pyqtSignals of AcquisitionWorker
\* The text of an error signal is traceback.format_exc(): it shows the
\* statement of run() that raised (so the channel whose call raised), and no
\* value of the loop variable: `channels` is the set of channels the text
\* names, `shot` is -1 for "no shot index in the text".
ProgressSig(count, label) ==
    [sig |-> "progress", count |-> count, label |-> label, result |-> NoAgg,
     channels |-> {}, shot |-> -1]
FinishedSig(result) ==
    [sig |-> "finished", count |-> 0, label |-> result.label, result |-> result,
     channels |-> {}, shot |-> -1]
ErrorSig(label, channel) ==
    [sig |-> "error", count |-> 0, label |-> label, result |-> NoAgg,
     channels |-> {channel}, shot |-> -1]

\* --------------------------------------------------------- _set_ui_state
\* enabled flag of each widget in each UI state
init_button_enabled(state) == state = "initial"
reset_button_enabled(state) == state \in {"ready_for_off", "ready_for_on"}
\* faulty variants: the OFF button left enabled in "ready_for_on" / in "measuring"
pump_off_button_enabled_ready_for_on(state) == state \in {"ready_for_off", "ready_for_on"}
pump_off_button_enabled_measuring(state) == state \in {"ready_for_off", "measuring"}
pump_off_button_enabled(state) == state = "ready_for_off"
\* faulty variant: the ON button left enabled in "ready_for_off"
pump_on_button_enabled_ready_for_off(state) == state \in {"ready_for_off", "ready_for_on"}
pump_on_button_enabled(state) == state = "ready_for_on"
\* faulty variant: the spin box stays enabled between the two acquisitions
n_scans_spinbox_enabled_ready_for_on(state) ==
    state \in {"initial", "ready_for_off", "ready_for_on"}
n_scans_spinbox_enabled(state) == state \in {"initial", "ready_for_off"}

\* the GUI thread is free to run a handler for a user action
GuiIdle == gui_pc = "idle"
UserCan == GuiIdle /\ ~closed

\* ------------------------------------------------- session-state abstraction
\* The program keeps no session-state field: the state is the set of enabled
\* widgets chosen by _set_ui_state.  "ready_for_off" is set by three handlers;
\* set by process_and_display_results it is the session state Complete, set
\* by initialize_spectrometers or on_acquisition_error it is Initialized.
Idle == ui_state = "initial"
Initialized == ui_state = "ready_for_off" /\ ui_caller # "process_and_display_results"
Complete == ui_state = "ready_for_off" /\ ui_caller = "process_and_display_results"
AcquiringOff == ui_state = "measuring" /\ worker.label = "OFF"
AcquiringOn == ui_state = "measuring" /\ worker.label = "ON"
ReadyForOn == ui_state = "ready_for_on"

\* notoriger.py before main() is called
CliInit ==
    [pc |-> "not_started", N_SCANS |-> 0, label |-> "None", i |-> 0,
     open |-> [c \in Channels |-> FALSE],
     pixels |-> [c \in Channels |-> 0],
     integ |-> [c \in Channels |-> DeviceDefault],
     wl_size |-> 0, ts_ref |-> <<>>, ts_prb |-> <<>>,
     fut |-> NoFut, step |-> [c \in Channels |-> 0],
     now |-> 0, t |-> [c \in Channels |-> NoRead],
     clock |-> ClockStart, ts |-> [c \in Channels |-> NoTimestamp],
     off |-> NoCliResult, on |-> NoCliResult]

\* plot_scan_timing.py before main() is called
ScanInit ==
    [pc |-> "not_started", N_SCANS |-> 0, open |-> FALSE, n_px |-> 0,
     integ |-> DeviceDefault, trigger_mode |-> 0,
     i |-> 0, timestamps |-> <<>>, step |-> 0, now |-> 0, t |-> NoRead]

\* ---- SpectrometerController (SpectroAPP/app/controllers)
\* device ids reported by the API
DeviceIds == {1, 2}
\* get_minimum_integration_time() and get_maximum_integration_time() of
\* the devices, in microseconds: one device with a range, one with min = max
get_integration_time_limits == [d \in DeviceIds |-> IF d = 1 THEN <<2, 4>> ELSE <<3, 3>>]
\* number of elements of get_wavelengths() and of a formatted spectrum
get_wavelengths_size == [d \in DeviceIds |-> d + 1]
\* self.spectrometer = None
NoDevice == 0
\* no method of the controller was called yet / the last call of a method:
\* op and arg, whether it raised, and what it returned (for
\* set_integration_time: the value handed to the device); -1 where there
\* is none
NoCall == [op |-> "None", arg |-> -1, raised |-> FALSE, value |-> -1]
\* SpectrometerController.__init__, with no device opened
CtlInit ==
    [spectrometer |-> NoDevice, wavelengths |-> 0, integration_time_limits |-> <<0, 0>>,
     device |-> [d \in DeviceIds |-> [open |-> FALSE, integ |-> DeviceDefault]],
     call |-> NoCall]

\* ---- timing analysis (plot_scan_timing.py evaluate_timing, notoriger.py main)
\* no timing analysis is set up
NoTiming ==
    [kind |-> "None", ts_list |-> <<>>, ideal_hz |-> 0,
     t0 |-> NoTimestamp, ts_ref |-> <<>>, ts_prb |-> <<>>,
     summaries |-> <<>>, lags |-> <<>>]
\* ---- absorbance and differential calculation
\* the aggregates of the two states that save_files combines
NoAggregates ==
    [a_off |-> <<>>, a_on |-> <<>>, i_prb_off |-> <<>>, i_prb_on |-> <<>>,
     i_ref_off |-> <<>>, i_ref_on |-> <<>>]
\* no differential result; raised names the exception of the calculation
NoDifferential(exception) ==
    [raised |-> exception, delta_a_conventional |-> <<>>, delta_a_probe |-> <<>>,
     delta_a_ref |-> <<>>]
\* no calculation is set up
NoCombine ==
    [kind |-> "None", pc |-> "None",
     shots |-> [label \in {"OFF", "ON"} |-> <<>>],
     A_mean |-> [label \in {"OFF", "ON"} |-> <<>>],
     agg |-> NoAggregates, result |-> NoDifferential("None")]

\* ---- spectrum library (SpectroAPP main_window.py)
\* a label: f"Spe_{n}", f"Group{n}" or a text typed by the operator, with
\* the suffix f"_imported_{imported}" when imported is not 0
Label(kind, n) == [kind |-> kind, n |-> n, imported |-> 0]
\* {}: a dict with no key
EmptyDict == [k \in {} |-> 0]
\* d[k] = v
Put(d, k, v) == [x \in DOMAIN d \cup {k} |-> IF x = k THEN v ELSE d[x]]
\* d without the key k, as left by d.pop(k)
Pop(d, k) == [x \in DOMAIN d \ {k} |-> d[x]]
\* second component of an entry: the data of the spectrum acquired or
\* imported as the id-th item (data # 0), or the member list of a group
SpectrumData(id) == [data |-> id, list |-> <<>>]
GroupData(list) == [data |-> 0, list |-> list]
\* the tuple (item_type, data, timestamp) kept in spectra_data
Entry(type, payload, timestamp) ==
    [type |-> type, payload |-> payload, timestamp |-> timestamp]
\* the tuple (label, data, timestamp) kept in the list of a group
Member(label, payload, timestamp) ==
    [label |-> label, payload |-> payload, timestamp |-> timestamp]
\* a TimestampSortTreeWidgetItem: text(0), parent() (0: top level, else
\* the id of the group item), the timestamp held in UserRole; id is the
\* identity of the object, is_group tells which handler created it
TreeItem(id, text, parent, ts, is_group) ==
    [id |-> id, text |-> text, parent |-> parent, ts |-> ts, is_group |-> is_group]
\* OceanDirectApp.__init__: empty dict, empty tree, both counters 1
LibInit ==
    [spectra_data |-> EmptyDict, tree |-> {}, spectrum_counter |-> 1,
     group_counter |-> 1, clock |-> 0, n_items |-> 0, raised |-> "None"]

\* the programs before anything was started
InitPrograms ==
    /\ ui_state = "initial"
    /\ ui_caller = "__init__"
    /\ spectrometers = {}
    /\ n_scans = n_scans_minimum
    /\ progress_bar = 0
    /\ a_off = NoAgg
    /\ a_on = NoAgg
    /\ delta_a = NoResult
    /\ report_text = NoResult
    /\ thread_running = FALSE
    /\ gui_pc = "idle"
    /\ closed = FALSE
    /\ worker = NoWorker
    /\ w_pc = "none"
    /\ w_i = 0
    /\ ts_ref = <<>>
    /\ ts_prb = <<>>
    /\ fut = NoFut
    /\ n_reads = [c \in Channels |-> 0]
    /\ emitted = <<>>
    /\ dev = [c \in Channels |-> "closed"]
    /\ integ = [c \in Channels |-> DeviceDefault]
    /\ inflight = [c \in Channels |-> 0]
    /\ active = 0
    /\ sigq = <<>>
    /\ acq = 0
    /\ cli = CliInit
    /\ scan = ScanInit

Init ==
    /\ InitPrograms
    /\ ctl = CtlInit
    /\ timing = NoTiming
    /\ combine = NoCombine
    /\ lib = LibInit


\* =====================================================================
\* AcquisitionWorker.run and the executor's pool threads
\* =====================================================================

\* run() has returned: by emitting finished, by emitting error, or silently
\* through `if not self.is_running: return`
Returned == {"finished", "error", "cancelled"}
WorkerReturned == w_pc \in Returned

\* faulty variant: the worker does not block on a submitted task
FutureDone_nonblocking(f) == f # "none"
\* Future.result() returns (or raises) only once the task has run to its end
FutureDone(f) == f \in {"ok", "failed"}

\* number of pool threads that are inside _grab_once
PoolBusy == Cardinality({c \in Channels : fut[c] = "reading"})

\* leaving the `with ThreadPoolExecutor` block calls shutdown(wait=True): it
\* returns once no submitted task is queued or running
ExecutorDrained == \A c \in Channels : fut[c] \notin {"pending", "reading"}

\* faulty variant: the flag is never looked at
CancelObserved_never == FALSE
\* `if not self.is_running` at the head of the loop body and after the loop
CancelObserved == ~worker.is_running

\* faulty variant: the exception of a failed task is swallowed
ResultRaises_swallowed(f) == FALSE
\* Future.result() re-raises the exception of a failed task
ResultRaises(f) == f = "failed"

\* faulty variant: a failed shot is taken again
AfterRaise_retry == "submit_ref"
\* an exception raised in the loop body leaves the loop and the `with` block
\* for the except clause of run()
AfterRaise == "shutdown"

\* the statement whose exception is being propagated: fut_ref.result() is
\* called first, so its failure is the one reported even if both failed
RaisedIn == IF fut["ref"] = "failed" THEN "ref" ELSE "probe"

\* faulty variant: progress counts from zero
ProgressCount_zero_based(i) == i
\* first argument of progress.emit(i + 1, self.label)
ProgressCount(i) == i + 1

\* faulty variant: the check after the loop is missing
ReturnWithoutResult_never == FALSE
\* line 95: `if not self.is_running: return`
ReturnWithoutResult == CancelObserved

\* line 81: wl = self.spec_ref.wavelengths(); allocation of a_stack, ts lists
WRunStart(ok) ==
    /\ w_pc = "started"
    /\ IF ok /\ dev["ref"] = "open"
       THEN /\ w_pc' = "poll"
            /\ sigq' = sigq
            /\ active' = active
       ELSE /\ w_pc' = "error"
            /\ sigq' = Append(sigq, ErrorSig(worker.label, "ref"))
            /\ active' = active - 1
    /\ emitted' = IF ok /\ dev["ref"] = "open" THEN emitted
                  ELSE Append(emitted, ErrorSig(worker.label, "ref"))
    /\ w_i' = 0
    /\ ts_ref' = <<>>
    /\ ts_prb' = <<>>
    /\ UNCHANGED <<worker, fut, n_reads, dev, integ, inflight, acq, cli, scan, unit_vars>>
    /\ UNCHANGED gui_vars

\* faulty variant: the loop body runs once more than n_scans times
WPoll_one_more ==
    /\ w_pc = "poll"
    /\ w_pc' = IF w_i > worker.n_scans THEN "post_loop"
               ELSE IF CancelObserved THEN "post_loop"
               ELSE "submit_ref"
    /\ UNCHANGED <<worker, w_i, ts_ref, ts_prb, fut, n_reads, emitted>>
    /\ UNCHANGED env_vars
    /\ UNCHANGED gui_vars
\* lines 85-86: next iteration of `for i in range(self.n_scans)`, then the
\* cancellation poll
WPoll ==
    /\ w_pc = "poll"
    /\ w_pc' = IF w_i >= worker.n_scans THEN "post_loop"
               ELSE IF CancelObserved THEN "post_loop"
               ELSE "submit_ref"
    /\ UNCHANGED <<worker, w_i, ts_ref, ts_prb, fut, n_reads, emitted>>
    /\ UNCHANGED env_vars
    /\ UNCHANGED gui_vars

\* line 87: fut_ref = exe.submit(self._grab_once, self.spec_ref)
WSubmitRef ==
    /\ w_pc = "submit_ref"
    /\ fut' = [fut EXCEPT !["ref"] = "pending"]
    /\ inflight' = [inflight EXCEPT !["ref"] = @ + 1]
    /\ n_reads' = [n_reads EXCEPT !["ref"] = @ + 1]
    /\ w_pc' = "submit_prb"
    /\ UNCHANGED <<worker, w_i, ts_ref, ts_prb, emitted, dev, integ, active, sigq, acq, cli, scan, unit_vars>>
    /\ UNCHANGED gui_vars

\* faulty variant: the probe read is issued after the reference read returned
ProbeSubmitReady_serial == w_pc = "submit_prb" /\ FutureDone(fut["ref"])
\* the worker is about to issue the probe read
ProbeSubmitReady == w_pc = "submit_prb"

\* line 88: fut_prb = exe.submit(self._grab_once, self.spec_probe)
WSubmitProbe ==
    /\ ProbeSubmitReady
    /\ fut' = [fut EXCEPT !["probe"] = "pending"]
    /\ inflight' = [inflight EXCEPT !["probe"] = @ + 1]
    /\ n_reads' = [n_reads EXCEPT !["probe"] = @ + 1]
    /\ w_pc' = "wait_ref"
    /\ UNCHANGED <<worker, w_i, ts_ref, ts_prb, emitted, dev, integ, active, sigq, acq, cli, scan, unit_vars>>
    /\ UNCHANGED gui_vars

\* a pool thread picks the task up: _grab_once takes ts = now_iso() and
\* enters spec.intensities()
PoolStart(c) ==
    /\ fut[c] = "pending"
    /\ PoolBusy < max_workers
    /\ fut' = [fut EXCEPT ![c] = "reading"]
    /\ UNCHANGED <<worker, w_pc, w_i, ts_ref, ts_prb, n_reads, emitted>>
    /\ UNCHANGED env_vars
    /\ UNCHANGED gui_vars

\* spec.intensities() returns a frame or raises
ReadReturn(c, ok) ==
    /\ fut[c] = "reading"
    /\ fut' = [fut EXCEPT ![c] = IF ok /\ dev[c] = "open" THEN "ok" ELSE "failed"]
    /\ inflight' = [inflight EXCEPT ![c] = @ - 1]
    /\ UNCHANGED <<worker, w_pc, w_i, ts_ref, ts_prb, n_reads, emitted, dev, integ, active, sigq, acq, cli, scan, unit_vars>>
    /\ UNCHANGED gui_vars

\* line 89: ts_r, i_ref = fut_ref.result()
WResultRef ==
    /\ w_pc = "wait_ref"
    /\ FutureDone(fut["ref"])
    /\ w_pc' = IF ResultRaises(fut["ref"]) THEN AfterRaise ELSE "wait_prb"
    /\ UNCHANGED <<worker, w_i, ts_ref, ts_prb, fut, n_reads, emitted>>
    /\ UNCHANGED env_vars
    /\ UNCHANGED gui_vars

\* line 90: ts_p, i_prb = fut_prb.result()
WResultProbe ==
    /\ w_pc = "wait_prb"
    /\ FutureDone(fut["probe"])
    /\ w_pc' = IF ResultRaises(fut["probe"]) THEN AfterRaise ELSE "record"
    /\ UNCHANGED <<worker, w_i, ts_ref, ts_prb, fut, n_reads, emitted>>
    /\ UNCHANGED env_vars
    /\ UNCHANGED gui_vars

\* lines 91-94: append the two time stamps, store the absorbance row,
\* emit progress(i + 1, label)
WRecord ==
    /\ w_pc = "record"
    /\ ts_ref' = Append(ts_ref, w_i)
    /\ ts_prb' = Append(ts_prb, w_i)
    /\ sigq' = Append(sigq, ProgressSig(ProgressCount(w_i), worker.label))
    /\ emitted' = Append(emitted, ProgressSig(ProgressCount(w_i), worker.label))
    /\ w_i' = w_i + 1
    /\ w_pc' = "poll"
    /\ UNCHANGED <<worker, fut, n_reads, dev, integ, inflight, active, acq, cli, scan, unit_vars>>
    /\ UNCHANGED gui_vars

\* an exception left the loop: the `with` block waits for the other task,
\* then lines 99-100 emit error and run() returns
WShutdown ==
    /\ w_pc = "shutdown"
    /\ ExecutorDrained
    /\ sigq' = Append(sigq, ErrorSig(worker.label, RaisedIn))
    /\ emitted' = Append(emitted, ErrorSig(worker.label, RaisedIn))
    /\ w_pc' = "error"
    /\ active' = active - 1
    /\ UNCHANGED <<worker, w_i, ts_ref, ts_prb, fut, n_reads, dev, integ, inflight, acq, cli, scan, unit_vars>>
    /\ UNCHANGED gui_vars

\* the dict built at lines 96-97
Result == [label |-> worker.label, gen |-> worker.gen,
           ts_ref_list |-> ts_ref, ts_probe_list |-> ts_prb]

\* faulty variant: the aggregate is emitted by a cancelled run as well
WPostLoop_emits_when_cancelled ==
    /\ w_pc = "post_loop"
    /\ ExecutorDrained
    /\ w_pc' = IF ReturnWithoutResult THEN "cancelled" ELSE "finished"
    /\ sigq' = Append(sigq, FinishedSig(Result))
    /\ emitted' = Append(emitted, FinishedSig(Result))
    /\ active' = active - 1
    /\ UNCHANGED <<worker, w_i, ts_ref, ts_prb, fut, n_reads, dev, integ, inflight, acq, cli, scan, unit_vars>>
    /\ UNCHANGED gui_vars
\* lines 95-98: leave the `with` block, `if not self.is_running: return`,
\* else build the result and emit finished
WPostLoop ==
    /\ w_pc = "post_loop"
    /\ ExecutorDrained
    /\ IF ReturnWithoutResult
       THEN /\ w_pc' = "cancelled"
            /\ sigq' = sigq
            /\ emitted' = emitted
       ELSE /\ w_pc' = "finished"
            /\ sigq' = Append(sigq, FinishedSig(Result))
            /\ emitted' = Append(emitted, FinishedSig(Result))
    /\ active' = active - 1
    /\ UNCHANGED <<worker, w_i, ts_ref, ts_prb, fut, n_reads, dev, integ, inflight, acq, cli, scan, unit_vars>>
    /\ UNCHANGED gui_vars

WorkerStep ==
    \/ \E ok \in BOOLEAN : WRunStart(ok)
    \/ WPoll
    \/ WSubmitRef
    \/ WSubmitProbe
    \/ WResultRef
    \/ WResultProbe
    \/ WRecord
    \/ WShutdown
    \/ WPostLoop

PoolStep ==
    \/ \E c \in Channels : PoolStart(c)
    \/ \E c \in Channels, ok \in BOOLEAN : ReadReturn(c, ok)


\* =====================================================================
\* MainWindow handlers (GUI thread)
\* =====================================================================

\* _set_ui_state(state), called from `caller`
SetUi(state, caller) ==
    /\ ui_state' = state
    /\ ui_caller' = caller
    /\ progress_bar' = IF state = "initial" THEN 0 ELSE progress_bar

\* faulty variant: reset_connection does not wait for the thread
ThreadFinished_nowait == TRUE
\* thread.wait() returns once the thread's run() slot has returned
ThreadFinished == WorkerReturned

\* reset_connection, lines 397-405: close every bound spectrometer (errors
\* of close() are swallowed), clear the dict, back to the initial UI state,
\* clear report and plots.  a_off / a_on / ts_* are not touched.
ResetBody ==
    /\ dev' = [c \in Channels |-> IF c \in spectrometers THEN "closed" ELSE dev[c]]
    /\ integ' = integ
    /\ spectrometers' = {}
    /\ SetUi("initial", "reset_connection")
    /\ report_text' = NoResult
    /\ delta_a' = NoResult
    /\ UNCHANGED <<n_scans, a_off, a_on>>

\* faulty variant: the thread is never seen running
thread_isRunning_never == FALSE
\* `self.thread and self.thread.isRunning()`
thread_isRunning == thread_running

\* reset_connection, lines 394-396: with a running thread it calls
\* worker.stop(), thread.quit() and blocks in thread.wait()
ResetBegin ==
    IF thread_isRunning
    THEN /\ worker' = [worker EXCEPT !.is_running = FALSE]
         /\ gui_pc' = "reset_wait"
         /\ UNCHANGED <<ui_state, ui_caller, spectrometers, n_scans, progress_bar, a_off, a_on,
                        delta_a, report_text, thread_running, dev, integ>>
    ELSE /\ ResetBody
         /\ UNCHANGED <<worker, gui_pc, thread_running>>

\* reset_button.clicked
ResetClicked ==
    /\ UserCan
    /\ reset_button_enabled(ui_state)
    /\ ResetBegin
    /\ UNCHANGED <<closed, w_pc, w_i, ts_ref, ts_prb, fut, n_reads, emitted, inflight, active, sigq, acq, cli, scan, unit_vars>>

\* closeEvent: reset_connection(), then event.accept()
CloseEvent ==
    /\ UserCan
    /\ closed' = TRUE
    /\ ResetBegin
    /\ UNCHANGED <<w_pc, w_i, ts_ref, ts_prb, fut, n_reads, emitted, inflight, active, sigq, acq, cli, scan, unit_vars>>

\* thread.wait() of reset_connection returns; the rest of the handler runs
ResetWaitDone ==
    /\ gui_pc = "reset_wait"
    /\ ThreadFinished
    /\ thread_running' = FALSE
    /\ gui_pc' = "idle"
    /\ ResetBody
    /\ UNCHANGED <<closed, inflight, active, sigq, acq, cli, scan, unit_vars>>
    /\ UNCHANGED worker_vars

\* initialize_spectrometers: list_devices, open both devices; any exception
\* leads to reset_connection()
InitOutcomes == {"ok", "too_few_devices", "ref_open_fails", "probe_open_fails"}

\* faulty variant: a failed initialization does not call reset_connection,
\* the reference device opened before the failure stays bound and open
initialize_spectrometers_no_cleanup(outcome) ==
    /\ UserCan
    /\ init_button_enabled(ui_state)
    /\ ~thread_running
    /\ IF outcome = "ok"
       THEN /\ spectrometers' = Channels
            /\ dev' = [c \in Channels |-> "open"]
            /\ SetUi("ready_for_off", "initialize_spectrometers")
       ELSE /\ spectrometers' = IF outcome = "probe_open_fails" THEN {"ref"} ELSE {}
            /\ dev' = IF outcome = "probe_open_fails" THEN [dev EXCEPT !["ref"] = "open"] ELSE dev
            /\ SetUi("initial", "initialize_spectrometers")
    /\ report_text' = NoResult
    /\ UNCHANGED <<n_scans, a_off, a_on, delta_a, integ>>
    /\ UNCHANGED <<thread_running, gui_pc, closed, inflight, active, sigq, acq, cli, scan, unit_vars>>
    /\ UNCHANGED worker_vars
initialize_spectrometers(outcome) ==
    /\ UserCan
    /\ init_button_enabled(ui_state)
    /\ ~thread_running
    /\ IF outcome = "ok"
       THEN /\ spectrometers' = Channels
            /\ dev' = [c \in Channels |-> "open"]
            /\ integ' = integ
            /\ SetUi("ready_for_off", "initialize_spectrometers")
            /\ report_text' = NoResult
            /\ UNCHANGED <<n_scans, a_off, a_on, delta_a>>
       ELSE \* a device opened before the failure is closed again by reset_connection
            ResetBody
    /\ UNCHANGED <<thread_running, gui_pc, closed, inflight, active, sigq, acq, cli, scan, unit_vars>>
    /\ UNCHANGED worker_vars

\* the operator edits n_scans_spinbox
SetNScans(n) ==
    /\ UserCan
    /\ n_scans_spinbox_enabled(ui_state)
    /\ n # n_scans
    /\ n_scans' = n
    /\ UNCHANGED <<ui_state, ui_caller, spectrometers, progress_bar, a_off, a_on,
                   delta_a, report_text, thread_running, gui_pc, closed>>
    /\ UNCHANGED worker_vars
    /\ UNCHANGED env_vars

\* _start_acquisition(label): UI to "measuring", new QThread and new
\* AcquisitionWorker bound to self.thread / self.worker, thread.start()
StartAcquisition(label) ==
    /\ acq < MaxAcq
    /\ SetUi("measuring", "_start_acquisition")
    /\ IF Channels \subseteq spectrometers
       THEN /\ worker' = [label |-> label, n_scans |-> n_scans, is_running |-> TRUE, gen |-> acq + 1]
            /\ w_pc' = "started"
            /\ w_i' = 0
            /\ ts_ref' = <<>>
            /\ ts_prb' = <<>>
            /\ fut' = NoFut
            /\ n_reads' = [c \in Channels |-> 0]
            /\ emitted' = <<>>
            /\ thread_running' = TRUE
            /\ active' = active + 1
            /\ acq' = acq + 1
            /\ UNCHANGED <<cli, scan, unit_vars>>
       ELSE \* specs["ref"] raises KeyError in AcquisitionWorker.__init__
            /\ UNCHANGED <<worker, w_pc, w_i, ts_ref, ts_prb, fut, n_reads, emitted,
                           thread_running, active, acq, cli, scan, unit_vars>>
    /\ UNCHANGED <<spectrometers, n_scans, a_off, a_on, delta_a, report_text, gui_pc, closed,
                   dev, inflight, sigq>>

\* outcomes of the loop that applies the integration time (lines 266-267)
IntegOutcomes == {"ok", "ref_fails", "probe_fails"}

\* integration time of the devices after
\*   for s in self.spectrometers.values(): s.integration_time_micros(integ_us)
\* (dict order: ref, probe; the exception of a call ends the loop)
AppliedInteg(integ_us, outcome) ==
    [c \in Channels |->
        IF c \in spectrometers /\ (outcome = "ok" \/ (outcome = "probe_fails" /\ c = "ref"))
        THEN integ_us
        ELSE integ[c]]

\* start_off_measurement: apply the integration time to both devices (on an
\* exception: message box and return), then ask for confirmation
start_off_measurement(integ_us, outcome, reply) ==
    /\ UserCan
    /\ pump_off_button_enabled(ui_state)
    /\ integ' = AppliedInteg(integ_us, outcome)
    /\ IF outcome = "ok" /\ reply = "Yes"
       THEN StartAcquisition("OFF")
       ELSE UNCHANGED <<gui_vars, worker_vars, dev, inflight, active, sigq, acq, cli, scan, unit_vars>>

\* faulty variant: the acquisition is started whatever the reply
start_on_measurement_ignores_reply(reply) ==
    /\ UserCan
    /\ pump_on_button_enabled(ui_state)
    /\ integ' = integ
    /\ StartAcquisition("ON")
\* start_on_measurement: ask for confirmation
start_on_measurement(reply) ==
    /\ UserCan
    /\ pump_on_button_enabled(ui_state)
    /\ integ' = integ
    /\ IF reply = "Yes"
       THEN StartAcquisition("ON")
       ELSE UNCHANGED <<gui_vars, worker_vars, dev, inflight, active, sigq, acq, cli, scan, unit_vars>>

\* update_progress(count, label)
update_progress ==
    /\ GuiIdle
    /\ sigq # <<>>
    /\ Head(sigq).sig = "progress"
    /\ sigq' = Tail(sigq)
    /\ progress_bar' = Head(sigq).count
    /\ UNCHANGED <<ui_state, ui_caller, spectrometers, n_scans, a_off, a_on,
                   delta_a, report_text, thread_running, gui_pc, closed>>
    /\ UNCHANGED worker_vars
    /\ UNCHANGED <<dev, integ, inflight, active, acq, cli, scan, unit_vars>>

\* faulty variant: a failed ON acquisition leaves the ON button enabled
on_acquisition_error_keeps_ready_for_on ==
    /\ GuiIdle
    /\ sigq # <<>>
    /\ Head(sigq).sig = "error"
    /\ sigq' = Tail(sigq)
    /\ thread_running' = FALSE
    /\ SetUi(IF Head(sigq).label = "ON" THEN "ready_for_on" ELSE "ready_for_off",
             "on_acquisition_error")
    /\ UNCHANGED <<spectrometers, n_scans, a_off, a_on, delta_a, report_text, gui_pc, closed>>
    /\ UNCHANGED worker_vars
    /\ UNCHANGED <<dev, integ, inflight, active, acq, cli, scan, unit_vars>>
\* on_acquisition_error(error_msg): message box, thread.quit(), thread.wait(),
\* _set_ui_state("ready_for_off")
on_acquisition_error ==
    /\ GuiIdle
    /\ sigq # <<>>
    /\ Head(sigq).sig = "error"
    /\ sigq' = Tail(sigq)
    /\ thread_running' = FALSE
    /\ SetUi("ready_for_off", "on_acquisition_error")
    /\ UNCHANGED <<spectrometers, n_scans, a_off, a_on, delta_a, report_text, gui_pc, closed>>
    /\ UNCHANGED worker_vars
    /\ UNCHANGED <<dev, integ, inflight, active, acq, cli, scan, unit_vars>>

\* faulty variant: the results are computed from the ON aggregate stored before
process_and_display_results_stale(off, on) ==
    /\ delta_a' = [off |-> off, on |-> a_on]
    /\ IF Channels \subseteq spectrometers
       THEN /\ report_text' = [off |-> off, on |-> a_on]
            /\ SetUi("ready_for_off", "process_and_display_results")
            /\ thread_running' = FALSE
       ELSE UNCHANGED <<report_text, ui_state, ui_caller, progress_bar, thread_running>>

\* process_and_display_results: delta_a and the lags are computed from the
\* stored aggregates, plotted and saved; generate_report reads
\* self.spectrometers['ref'] / ['probe'] and raises KeyError when the dict
\* is empty, in which case the handler ends before the report is shown and
\* before _set_ui_state is called
process_and_display_results(off, on) ==
    /\ delta_a' = [off |-> off, on |-> on]
    /\ IF Channels \subseteq spectrometers
       THEN /\ report_text' = [off |-> off, on |-> on]
            /\ SetUi("ready_for_off", "process_and_display_results")
            /\ thread_running' = FALSE
       ELSE UNCHANGED <<report_text, ui_state, ui_caller, progress_bar, thread_running>>

\* faulty variant: every result is stored as the OFF aggregate
StoredOff_any(result) == result
\* self.a_off (with wl, ts_off_ref, ts_off_prb) after on_acquisition_finished(result)
StoredOff(result) == IF result.label = "OFF" THEN result ELSE a_off

\* on_acquisition_finished(result)
on_acquisition_finished ==
    /\ GuiIdle
    /\ sigq # <<>>
    /\ Head(sigq).sig = "finished"
    /\ sigq' = Tail(sigq)
    /\ a_off' = StoredOff(Head(sigq).result)
    /\ IF Head(sigq).label = "OFF"
       THEN /\ SetUi("ready_for_on", "on_acquisition_finished")
            /\ thread_running' = FALSE
            /\ UNCHANGED <<a_on, delta_a, report_text>>
       ELSE /\ a_on' = Head(sigq).result
            /\ process_and_display_results(a_off, Head(sigq).result)
    /\ UNCHANGED <<spectrometers, n_scans, gui_pc, closed>>
    /\ UNCHANGED worker_vars
    /\ UNCHANGED <<dev, integ, inflight, active, acq, cli, scan, unit_vars>>

GuiStep ==
    \/ \E outcome \in InitOutcomes : initialize_spectrometers(outcome)
    \/ \E n \in 1..MaxScans : SetNScans(n)
    \/ \E integ_us \in IntegMicros, outcome \in IntegOutcomes, reply \in {"Yes", "No"} :
          start_off_measurement(integ_us, outcome, reply)
    \/ \E reply \in {"Yes", "No"} : start_on_measurement(reply)
    \/ update_progress
    \/ on_acquisition_error
    \/ on_acquisition_finished
    \/ ResetClicked
    \/ CloseEvent
    \/ ResetWaitDone

Next == GuiStep \/ WorkerStep \/ PoolStep

Spec == Init /\ [][Next]_vars

\* The program under the scheduling it runs with: the worker thread and the
\* pool threads are scheduled by the operating system, so a statement of
\* run() that can execute, and a submitted task that a pool thread can pick
\* up, eventually do; and every spec.intensities() call eventually returns
\* or raises (the driver neither hangs nor is given a timeout by the
\* program).  Nothing is assumed of the operator.
SpecLive ==
    /\ Spec
    /\ WF_vars(WorkerStep)
    /\ \A c \in Channels : WF_vars(PoolStart(c))
    /\ \A c \in Channels : WF_vars(\E ok \in BOOLEAN : ReadReturn(c, ok))

\* ------------------------------------------------ notoriger.py (command line)
\* A behaviour of SpecCli is one run of one of the command-line tools:
\* notoriger.py (main, acquire_state, grab_once) or plot_scan_timing.py (main).
\* N_SCANS is a module constant of each tool; it is chosen when the tool starts.

\* INTEG_MS * 1_000 of notoriger.py, in microseconds
CliIntegMicros == 5000

\* faulty variant: the time is taken after the read returned
GrabOnceSteps_stamp_last == <<"issue", "return", "stamp">>
\* grab_once: ts = now_iso(), then spec.intensities() is called and returns
GrabOnceSteps == <<"stamp", "issue", "return">>

\* event times of a read after its next event `ev` happened at time `now`
Stamped(t, ev, now) ==
    IF ev = "stamp" THEN [t EXCEPT !.stamp = now]
    ELSE IF ev = "issue" THEN [t EXCEPT !.issue = now]
    ELSE [t EXCEPT !.ret = now]

\* size of the result of i_prb / i_ref (numpy broadcasting); 0 stands for
\* the ValueError of operands that cannot be broadcast together
BroadcastSize(a, b) ==
    IF a = b THEN a ELSE IF a = 1 THEN b ELSE IF b = 1 THEN a ELSE 0

\* a_stack[i] = value: the value fits a row of `cols` elements
RowAssignable(size, cols) == size = cols \/ size = 1

\* faulty variant: the mean is taken along the wavelength axis
MeanAxis1Size(rows, cols) == rows
\* size of a_stack.mean(0) for a_stack of shape (rows, cols)
MeanAxis0Size(rows, cols) == cols

\* main() is called
notoriger_main(n) ==
    /\ cli.pc = "not_started"
    /\ scan.pc = "not_started"
    /\ cli' = [cli EXCEPT !.pc = "list_devices", !.N_SCANS = n]
    /\ UNCHANGED <<scan, session_vars, unit_vars>>

\* devs = list_devices(); sys.exit(...) with fewer than two devices
main_list_devices(enough) ==
    /\ cli.pc = "list_devices"
    /\ cli' = [cli EXCEPT !.pc = IF enough THEN "open_ref" ELSE "exited"]
    /\ UNCHANGED <<scan, session_vars, unit_vars>>

\* ref = Spectrometer.from_serial_number(...), then prb = ...; an exception
\* ends the process
main_open(ok, px) ==
    /\ cli.pc \in {"open_ref", "open_prb"}
    /\ LET c == IF cli.pc = "open_ref" THEN "ref" ELSE "probe"
       IN  cli' = IF ok
                  THEN [cli EXCEPT !.open[c] = TRUE, !.pixels[c] = px,
                                   !.pc = IF c = "ref" THEN "open_prb" ELSE "set_integ"]
                  ELSE [cli EXCEPT !.pc = "exited"]
    /\ UNCHANGED <<scan, session_vars, unit_vars>>

\* for s in (ref, prb): s.integration_time_micros(integ_us)
main_set_integ(outcome) ==
    /\ cli.pc = "set_integ"
    /\ cli' = [cli EXCEPT
                 !.integ = [c \in Channels |->
                              IF outcome = "ok" \/ (outcome = "probe_fails" /\ c = "ref")
                              THEN CliIntegMicros ELSE @[c]],
                 !.pc = IF outcome = "ok" THEN "input_off" ELSE "exited"]
    /\ UNCHANGED <<scan, session_vars, unit_vars>>

\* input(...) returns and acquire_state(ref, prb, label) is called
main_input ==
    /\ cli.pc \in {"input_off", "input_on"}
    /\ cli' = [cli EXCEPT !.label = IF cli.pc = "input_off" THEN "OFF" ELSE "ON",
                          !.pc = "wavelengths"]
    /\ UNCHANGED <<scan, session_vars, unit_vars>>

\* wl = spec_ref.wavelengths(); a_stack = np.empty((N_SCANS, wl.size)); ts_ref, ts_prb = [], []
acquire_state_begin(ok) ==
    /\ cli.pc = "wavelengths"
    /\ cli' = IF ok
              THEN [cli EXCEPT !.wl_size = cli.pixels["ref"], !.i = 0,
                               !.ts_ref = <<>>, !.ts_prb = <<>>, !.pc = "loop"]
              ELSE [cli EXCEPT !.pc = "exited"]
    /\ UNCHANGED <<scan, session_vars, unit_vars>>

\* for i in range(N_SCANS)
acquire_state_loop ==
    /\ cli.pc = "loop"
    /\ cli' = [cli EXCEPT !.pc = IF cli.i < cli.N_SCANS THEN "submit_ref" ELSE "return"]
    /\ UNCHANGED <<scan, session_vars, unit_vars>>

\* fut_ref = exe.submit(grab_once, spec_ref); fut_prb = exe.submit(grab_once, spec_probe)
acquire_state_submit ==
    /\ cli.pc \in {"submit_ref", "submit_prb"}
    /\ cli' = IF cli.pc = "submit_ref"
              THEN [cli EXCEPT !.fut = [NoFut EXCEPT !["ref"] = "pending"],
                               !.step = [c \in Channels |-> 0],
                               !.t = [c \in Channels |-> NoRead],
                               !.now = 1,
                               !.pc = "submit_prb"]
              ELSE [cli EXCEPT !.fut["probe"] = "pending", !.pc = "wait_ref"]
    /\ UNCHANGED <<scan, session_vars, unit_vars>>

\* a pool thread executes the next event of grab_once(spec) for channel c;
\* an exception of spec.intensities() ends the task
grab_once(c, ok) ==
    /\ cli.fut[c] \in {"pending", "running"}
    /\ LET ev == GrabOnceSteps[cli.step[c] + 1]
           raised == ev = "return" /\ ~ok
           last == cli.step[c] + 1 = Len(GrabOnceSteps)
       IN  cli' = [cli EXCEPT
                     !.t[c] = Stamped(@, ev, cli.now),
                     !.ts[c] = IF ev = "stamp" THEN now_iso(cli.clock) ELSE @,
                     !.clock = IF ev = "stamp" THEN @ + 1 ELSE @,
                     !.step[c] = @ + 1,
                     !.now = @ + 1,
                     !.fut[c] = IF raised THEN "failed"
                                ELSE IF last THEN "ok" ELSE "running"]
    /\ UNCHANGED <<scan, session_vars, unit_vars>>

\* ts_r, i_ref = fut_ref.result(); ts_p, i_prb = fut_prb.result()
acquire_state_result ==
    /\ cli.pc \in {"wait_ref", "wait_prb"}
    /\ LET c == IF cli.pc = "wait_ref" THEN "ref" ELSE "probe"
       IN  /\ FutureDone(cli.fut[c])
           /\ cli' = [cli EXCEPT !.pc = IF ResultRaises(cli.fut[c]) THEN "raise"
                                        ELSE IF c = "ref" THEN "wait_prb" ELSE "record"]
    /\ UNCHANGED <<scan, session_vars, unit_vars>>

\* faulty variant: the timestamp is put in front of the list
RecordedTs_front(lst, ts) == <<ts>> \o lst
\* ts_ref.append(ts_r), ts_prb.append(ts_p)
RecordedTs(lst, ts) == Append(lst, ts)

\* ts_ref.append(ts_r); ts_prb.append(ts_p); a_stack[i] = -np.log10(i_prb / i_ref);
\* progress line; a ValueError of the division or of the assignment is raised
acquire_state_record ==
    /\ cli.pc = "record"
    /\ cli' = [cli EXCEPT
                 !.ts_ref = RecordedTs(@, cli.ts["ref"]),
                 !.ts_prb = RecordedTs(@, cli.ts["probe"]),
                 !.i = IF RowAssignable(BroadcastSize(cli.pixels["probe"], cli.pixels["ref"]),
                                        cli.wl_size)
                       THEN @ + 1 ELSE @,
                 !.pc = IF RowAssignable(BroadcastSize(cli.pixels["probe"], cli.pixels["ref"]),
                                         cli.wl_size)
                        THEN "loop" ELSE "raise"]
    /\ UNCHANGED <<scan, session_vars, unit_vars>>

\* an exception leaves the with block (the executor waits for its tasks)
\* and main(): the process ends with a traceback
acquire_state_raise ==
    /\ cli.pc = "raise"
    /\ \A c \in Channels : cli.fut[c] \notin {"pending", "running"}
    /\ cli' = [cli EXCEPT !.pc = "exited"]
    /\ UNCHANGED <<scan, session_vars, unit_vars>>

\* return wl, a_stack.mean(0), ts_ref, ts_prb; main() binds the result
acquire_state_return ==
    /\ cli.pc = "return"
    /\ LET result == [label |-> cli.label, wl_size |-> cli.wl_size,
                      A_mean_size |-> MeanAxis0Size(cli.N_SCANS, cli.wl_size),
                      ts_ref |-> cli.ts_ref, ts_prb |-> cli.ts_prb]
       IN  cli' = IF cli.label = "OFF"
                  THEN [cli EXCEPT !.off = result, !.pc = "input_on"]
                  ELSE [cli EXCEPT !.on = result, !.pc = "close_ref"]
    /\ UNCHANGED <<scan, session_vars, unit_vars>>

\* ref.close(); prb.close(); the post-processing of main() follows
main_close ==
    /\ cli.pc \in {"close_ref", "close_prb"}
    /\ cli' = IF cli.pc = "close_ref"
              THEN [cli EXCEPT !.open["ref"] = FALSE, !.pc = "close_prb"]
              ELSE [cli EXCEPT !.open["probe"] = FALSE, !.pc = "post_processing"]
    /\ UNCHANGED <<scan, session_vars, unit_vars>>

CliStep ==
    \/ \E n \in n_scans_minimum..MaxScans : notoriger_main(n)
    \/ \E enough \in BOOLEAN : main_list_devices(enough)
    \/ \E ok \in BOOLEAN, px \in PixelCounts : main_open(ok, px)
    \/ \E outcome \in IntegOutcomes : main_set_integ(outcome)
    \/ main_input
    \/ \E ok \in BOOLEAN : acquire_state_begin(ok)
    \/ acquire_state_loop
    \/ acquire_state_submit
    \/ \E c \in Channels, ok \in BOOLEAN : grab_once(c, ok)
    \/ acquire_state_result
    \/ acquire_state_record
    \/ acquire_state_raise
    \/ acquire_state_return
    \/ main_close

\* ---------------------------------------- plot_scan_timing.py (command line)
\* TRIGGER_MODE of plot_scan_timing.py (External Hardware Level)
TRIGGER_MODE == 3

\* the measurement loop: spectra[i] = spec.intensities(), then
\* timestamps.append(datetime.now(timezone.utc).isoformat())
ScanSteps == <<"issue", "return", "stamp">>

\* outcomes of the device set-up of main()
ScanOpenOutcomes == {"ok", "open_fails", "setup_fails"}

\* main() is called: ask_frequency(), confirm_settings(); sys.exit when the
\* operator cancels
scan_main(n, go) ==
    /\ scan.pc = "not_started"
    /\ cli.pc = "not_started"
    /\ scan' = [scan EXCEPT !.pc = IF go THEN "open" ELSE "exited", !.N_SCANS = n]
    /\ UNCHANGED <<cli, session_vars, unit_vars>>

\* spec = Spectrometer.from_first_available(); integration_time_micros;
\* trigger_mode; wavelengths; buffers
scan_open(outcome, px, integ_us) ==
    /\ scan.pc = "open"
    /\ scan' = IF outcome = "open_fails"
               THEN [scan EXCEPT !.pc = "exited"]
               ELSE IF outcome = "setup_fails"
               THEN [scan EXCEPT !.open = TRUE, !.pc = "exited"]
               ELSE [scan EXCEPT !.open = TRUE, !.integ = integ_us,
                                 !.trigger_mode = TRIGGER_MODE, !.n_px = px,
                                 !.i = 0, !.timestamps = <<>>, !.step = 0, !.pc = "loop"]
    /\ UNCHANGED <<cli, session_vars, unit_vars>>

\* the next event of iteration i of the measurement loop; an exception of
\* spec.intensities() ends the process
scan_loop(ok) ==
    /\ scan.pc = "loop"
    /\ scan.i < scan.N_SCANS
    /\ LET ev == ScanSteps[scan.step + 1]
           now == scan.step + 1
           raised == ev = "return" /\ ~ok
           last == scan.step + 1 = Len(ScanSteps)
           t == IF scan.step = 0 THEN NoRead ELSE scan.t
       IN  scan' = IF raised
                   THEN [scan EXCEPT !.t = Stamped(t, ev, now), !.pc = "exited"]
                   ELSE [scan EXCEPT
                           !.t = Stamped(t, ev, now),
                           !.now = now,
                           !.step = IF last THEN 0 ELSE @ + 1,
                           !.timestamps = IF last THEN Append(@, scan.i) ELSE @,
                           !.i = IF last THEN @ + 1 ELSE @]
    /\ UNCHANGED <<cli, session_vars, unit_vars>>

\* spec.close(); saving and evaluate_timing follow
scan_close ==
    /\ scan.pc = "loop"
    /\ scan.i = scan.N_SCANS
    /\ scan' = [scan EXCEPT !.open = FALSE, !.pc = "saving"]
    /\ UNCHANGED <<cli, session_vars, unit_vars>>

ScanStep ==
    \/ \E n \in n_scans_minimum..MaxScans, go \in BOOLEAN : scan_main(n, go)
    \/ \E outcome \in ScanOpenOutcomes, px \in PixelCounts, integ_us \in IntegMicros :
          scan_open(outcome, px, integ_us)
    \/ \E ok \in BOOLEAN : scan_loop(ok)
    \/ scan_close

NextCli == CliStep \/ ScanStep

SpecCli == Init /\ [][NextCli]_vars

\* =====================================================================
\* Timing analysis: evaluate_timing of plot_scan_timing.py and the lag
\* calculation of notoriger.py / GUI_notrigger.py, applied to given
\* timestamp lists.  Times are kept in microseconds (the code's
\* milliseconds times 1000), so that all arithmetic is exact.
\* =====================================================================

\* the sum and the sum of squares of the elements of an array
RECURSIVE Sum(_)
Sum(a) == IF a = <<>> THEN 0 ELSE Head(a) + Sum(Tail(a))
SumSq(a) == Sum([k \in 1..Len(a) |-> a[k] * a[k]])
\* nan, and the finite value num / den
NaN == [nan |-> TRUE, num |-> 0, den |-> 1]
Ratio(num, den) == [nan |-> FALSE, num |-> num, den |-> den]
\* a.mean(): nan for an empty array (numpy warns, it does not raise)
mean(a) == IF Len(a) = 0 THEN NaN ELSE Ratio(Sum(a), Len(a))
\* a.std(ddof=1), given as its square: sum((a - mean)^2) / (n - 1), which
\* is nan when n - 1 <= 0 (numpy warns, it does not raise)
std_ddof1(a) ==
    IF Len(a) <= 1 THEN NaN
    ELSE Ratio(Len(a) * SumSq(a) - Sum(a) * Sum(a), Len(a) * (Len(a) - 1))
\* np.abs(a).max() of a non-empty array
abs_max(a) ==
    LET abs(x) == IF x < 0 THEN -x ELSE x
    IN  CHOOSE m \in {abs(a[k]) : k \in 1..Len(a)} : \A k \in 1..Len(a) : abs(a[k]) <= m

\* isoparse(a) - isoparse(b): a timedelta, normalised to whole seconds (which
\* may be negative) and 0 <= microseconds < 1000000
timedelta(a, b) ==
    LET d == isoparse(a) - isoparse(b)
    IN  [seconds |-> d \div UsecPerSec, microseconds |-> d % UsecPerSec]
\* faulty variant: only the microseconds field of the timedelta is used
total_seconds_microseconds_only(td) == td.microseconds
\* td.total_seconds() * 1_000, times 1000
total_seconds(td) == td.seconds * UsecPerSec + td.microseconds

\* faulty variant: an interval of exactly 1.5 periods counts as well
exceeds_at_threshold(interval, ideal) == 2 * interval >= 3 * ideal
\* interval_ms > 1.5*ideal_ms
exceeds(interval, ideal) == 2 * interval > 3 * ideal

\* what evaluate_timing reports when it raised
NoSummary(exception) ==
    [raised |-> exception, n |-> 0, mean |-> NaN, std |-> NaN, absmax |-> -1, lost |-> -1]

\* faulty variant: the count of lost cycles is carried over from the
\* previous call
evaluate_timing_accumulating(ts_list, ideal_hz) ==
    LET ideal == 1000000 \div ideal_hz
        t0 == ts_list[1]
        rel == [k \in 1..Len(ts_list) |-> total_seconds(timedelta(ts_list[k], t0))]
        interval == [k \in 1..(Len(rel) - 1) |-> rel[k + 1] - rel[k]]
        err == [k \in 1..Len(interval) |-> interval[k] - ideal]
        before == IF timing.summaries = <<>> THEN 0
                  ELSE timing.summaries[Len(timing.summaries)].lost
    IN  IF Len(err) = 0 THEN NoSummary("ValueError")
        ELSE [raised |-> "None", n |-> Len(interval),
              mean |-> mean(err), std |-> std_ddof1(err), absmax |-> abs_max(err),
              lost |-> before
                       + Cardinality({k \in 1..Len(interval) : exceeds(interval[k], ideal)})]
\* evaluate_timing(ts_list, ideal_hz, out_dir): the values of its summary.
\* With a single timestamp err_ms is empty: mean() and std(ddof=1) give nan
\* and np.abs(err_ms).max() raises ValueError.
evaluate_timing(ts_list, ideal_hz) ==
    LET ideal == 1000000 \div ideal_hz
        t0 == ts_list[1]
        rel == [k \in 1..Len(ts_list) |-> total_seconds(timedelta(ts_list[k], t0))]
        interval == [k \in 1..(Len(rel) - 1) |-> rel[k + 1] - rel[k]]
        err == [k \in 1..Len(interval) |-> interval[k] - ideal]
    IN  IF Len(err) = 0 THEN NoSummary("ValueError")
        ELSE [raised |-> "None", n |-> Len(interval),
              mean |-> mean(err), std |-> std_ddof1(err), absmax |-> abs_max(err),
              lost |-> Cardinality({k \in 1..Len(interval) : exceeds(interval[k], ideal)})]

\* iso_list_to_ms(lst), with the t0 of the enclosing main()
iso_list_to_ms(lst, t0) == [k \in 1..Len(lst) |-> total_seconds(timedelta(lst[k], t0))]
\* dt = iso_list_to_ms(ts_prb) - iso_list_to_ms(ts_ref) of two lists of
\* the same length, and dt.mean(), dt.std(ddof=1) of the report
lag(ts_ref_list, ts_prb_list, t0) ==
    LET prb == iso_list_to_ms(ts_prb_list, t0)
        ref == iso_list_to_ms(ts_ref_list, t0)
        dt == [k \in 1..Len(ref) |-> prb[k] - ref[k]]
    IN  [dt |-> dt, mean |-> mean(dt), std |-> std_ddof1(dt)]

\* ---- inputs
\* ideal frequencies in Hz: periods of 1 ms and 2 ms
IdealHz == {1000, 500}
\* intervals between successive timestamps, in microseconds
Intervals == {1000, 1500, 2000, 3000}
\* host clock values of the timestamps of a lag calculation, on both sides
\* of a full second
LagClocks == {999998, 999999, 1000000, 1000002}
\* the timestamp list that starts at start and has the given intervals
RECURSIVE TimestampsFrom(_, _)
TimestampsFrom(start, intervals) ==
    IF intervals = <<>> THEN <<now_iso(start)>>
    ELSE <<now_iso(start)>> \o TimestampsFrom(start + Head(intervals), Tail(intervals))
\* arguments of evaluate_timing: lists of 1 .. MaxIntervals + 1 timestamps
SeriesInputs ==
    {[NoTiming EXCEPT !.kind = "series",
                      !.ts_list = TimestampsFrom(start, intervals),
                      !.ideal_hz = hz] :
        start \in {0, ClockStart},
        intervals \in UNION {[1..n -> Intervals] : n \in 0..MaxIntervals},
        hz \in IdealHz}
\* the timestamp lists of one state and the first reference timestamp of
\* the OFF state, for 1 .. MaxLagShots shots
LagInputs ==
    {[NoTiming EXCEPT !.kind = "lag",
                      !.t0 = now_iso(zero),
                      !.ts_ref = [k \in 1..Len(r) |-> now_iso(r[k])],
                      !.ts_prb = [k \in 1..Len(p) |-> now_iso(p[k])]] :
        zero \in LagClocks,
        r \in UNION {[1..n -> LagClocks] : n \in 1..MaxLagShots},
        p \in UNION {[1..n -> LagClocks] : n \in 1..MaxLagShots}}

InitTiming ==
    /\ InitPrograms
    /\ ctl = CtlInit
    /\ combine = NoCombine
    /\ lib = LibInit
    /\ timing \in SeriesInputs \cup {x \in LagInputs : Len(x.ts_ref) = Len(x.ts_prb)}

\* evaluate_timing(timestamps, freq_hz, run_dir) is called
timing_evaluate ==
    /\ timing.kind = "series"
    /\ Len(timing.summaries) < MaxCalls
    /\ timing' = [timing EXCEPT
                    !.summaries = Append(@, evaluate_timing(timing.ts_list, timing.ideal_hz))]
    /\ UNCHANGED <<cli, scan, session_vars, ctl, combine, lib>>

\* the lag of one state is computed and reported
timing_lag ==
    /\ timing.kind = "lag"
    /\ Len(timing.lags) < MaxCalls
    /\ timing' = [timing EXCEPT
                    !.lags = Append(@, lag(timing.ts_ref, timing.ts_prb, timing.t0))]
    /\ UNCHANGED <<cli, scan, session_vars, ctl, combine, lib>>

NextTiming == timing_evaluate \/ timing_lag

SpecTiming == InitTiming /\ [][NextTiming]_vars

\* =====================================================================
\* Absorbance and differential calculation: the arithmetic of
\* acquire_state and main of notoriger.py (and of GUI_notrigger.py) on
\* given frames, and of save_files of GUI_notrigger_ver2.0.py on given
\* aggregates.  Floating-point values are kept as exact fractions
\* together with the IEEE values inf, -inf and nan; the rounding to
\* float32 is left out.
\* =====================================================================

\* a finite value num / den with den > 0, and the three values that are not finite
fin(num, den) == [k |-> "fin", num |-> num, den |-> den]
inf == [k |-> "inf", num |-> 0, den |-> 1]
neg_inf == [k |-> "-inf", num |-> 0, den |-> 1]
nan == [k |-> "nan", num |-> 0, den |-> 1]
isfinite(x) == x.k = "fin"
\* x == 0 (0.0 or -0.0)
iszero(x) == x.k = "fin" /\ x.num = 0

\* x / y of two finite values: a non-zero value divided by zero is inf or
\* -inf (divide, ignored), 0 / 0 is nan (invalid, a warning)
divide(x, y) ==
    IF y.num = 0
    THEN IF x.num = 0 THEN nan ELSE IF x.num > 0 THEN inf ELSE neg_inf
    ELSE IF y.num > 0 THEN fin(x.num * y.den, x.den * y.num)
    ELSE fin(-(x.num * y.den), x.den * (-y.num))
\* 10^e for e >= 0
RECURSIVE Pow10(_)
Pow10(e) == IF e = 0 THEN 1 ELSE 10 * Pow10(e - 1)
\* np.log10(x): -inf at 0 (divide, ignored), nan below 0 and at -inf
\* (invalid, a warning); the finite arguments are powers of ten
log10(x) ==
    CASE x.k = "nan" -> nan
      [] x.k = "inf" -> inf
      [] x.k = "-inf" -> nan
      [] x.k = "fin" /\ x.num < 0 -> nan
      [] x.k = "fin" /\ x.num = 0 -> neg_inf
      [] OTHER ->
           LET e == CHOOSE e \in -3..3 :
                       \/ e >= 0 /\ x.num = x.den * Pow10(e)
                       \/ e < 0 /\ x.num * Pow10(-e) = x.den
           IN  fin(e, 1)
\* -x
negative(x) ==
    CASE x.k = "fin" -> fin(-x.num, x.den)
      [] x.k = "inf" -> neg_inf
      [] x.k = "-inf" -> inf
      [] OTHER -> nan
\* x + y: nan if an operand is nan or for inf + -inf
add(x, y) ==
    CASE x.k = "nan" \/ y.k = "nan" -> nan
      [] x.k = "fin" /\ y.k = "fin" -> fin(x.num * y.den + y.num * x.den, x.den * y.den)
      [] x.k = "fin" -> y
      [] y.k = "fin" -> x
      [] x.k = y.k -> x
      [] OTHER -> nan
\* faulty variant: the operands are exchanged
subtract_reversed(x, y) == add(y, negative(x))
\* x - y
subtract(x, y) == add(x, negative(y))

\* a[k] of an array that takes part in an operation of `size` elements
\* (numpy broadcasting: an array of one element is repeated)
Broadcast(a, k) == IF Len(a) = 1 THEN a[1] ELSE a[k]
\* -np.log10(i_prb / i_ref) of two frames of the same length
absorbance(i_prb, i_ref) ==
    [k \in 1..Len(i_ref) |-> negative(log10(divide(fin(i_prb[k], 1), fin(i_ref[k], 1))))]
\* faulty variant: shots that are not finite are left out of the mean
\* (nanmean over the finite shots)
mean_0_finite_only(a_stack, cols) ==
    [k \in 1..cols |->
        LET rows == SelectSeq(a_stack, LAMBDA row : isfinite(row[k]))
            RECURSIVE ColumnSum(_)
            ColumnSum(i) == IF i = 0 THEN fin(0, 1) ELSE add(ColumnSum(i - 1), rows[i][k])
            total == ColumnSum(Len(rows))
        IN  IF Len(rows) = 0 THEN nan ELSE fin(total.num, total.den * Len(rows))]
\* a_stack.mean(0): the mean over the shots, for each of the cols pixels
mean_0(a_stack, cols) ==
    [k \in 1..cols |->
        LET RECURSIVE ColumnSum(_)
            ColumnSum(i) == IF i = 0 THEN fin(0, 1) ELSE add(ColumnSum(i - 1), a_stack[i][k])
            total == ColumnSum(Len(a_stack))
        IN  IF isfinite(total) THEN fin(total.num, total.den * Len(a_stack)) ELSE total]

\* a - b of two arrays: element by element when the lengths agree or one
\* of them is 1 (broadcasting); otherwise numpy raises ValueError, for
\* which <<>> stands
array_subtract(a, b) ==
    [k \in 1..BroadcastSize(Len(a), Len(b)) |-> subtract(Broadcast(a, k), Broadcast(b, k))]
\* -np.log10(a / b) of two arrays, with the same broadcasting
array_neg_log10_ratio(a, b) ==
    [k \in 1..BroadcastSize(Len(a), Len(b)) |->
        negative(log10(divide(Broadcast(a, k), Broadcast(b, k))))]
\* save_files of GUI_notrigger_ver2.0.py, l.344-347: the three
\* differential results, or the ValueError of the first expression that
\* cannot be broadcast
save_files(agg) ==
    IF \/ BroadcastSize(Len(agg.a_on), Len(agg.a_off)) = 0
       \/ BroadcastSize(Len(agg.i_prb_on), Len(agg.i_prb_off)) = 0
       \/ BroadcastSize(Len(agg.i_ref_on), Len(agg.i_ref_off)) = 0
    THEN NoDifferential("ValueError")
    ELSE [raised |-> "None",
          delta_a_conventional |-> array_subtract(agg.a_on, agg.a_off),
          delta_a_probe |-> array_neg_log10_ratio(agg.i_prb_on, agg.i_prb_off),
          delta_a_ref |-> array_neg_log10_ratio(agg.i_ref_on, agg.i_ref_off)]

\* ---- inputs
\* reference and probe intensity at the first pixel: equal, probe a
\* tenth of the reference, probe zero, reference zero, both zero, probe
\* negative
Intensities == {<<10, 10>>, <<10, 1>>, <<10, 0>>, <<0, 10>>, <<0, 0>>, <<10, -10>>}
\* a frame pair of two pixels; the second pixel has the same, positive
\* intensity in both channels
FramePairs == {[ref |-> <<x[1], 10>>, prb |-> <<x[2], 10>>] : x \in Intensities}
\* the frames of an OFF and an ON acquisition
MeasureInput(off, on) ==
    [NoCombine EXCEPT !.kind = "measure", !.pc = "OFF",
                      !.shots = [label \in {"OFF", "ON"} |-> IF label = "OFF" THEN off ELSE on]]
\* mean absorbances and mean intensities of the aggregates
MeanAbsorbances == {fin(0, 1), fin(1, 2), inf, nan}
MeanIntensities == {fin(0, 1), fin(1, 1), fin(10, 1)}
\* aggregates whose arrays hold the value one, with axes of n_off and n_on elements
Aggregates(n_off, n_on) ==
    LET ones(n) == [k \in 1..n |-> fin(1, 1)]
    IN  [a_off |-> ones(n_off), a_on |-> ones(n_on),
         i_prb_off |-> ones(n_off), i_prb_on |-> ones(n_on),
         i_ref_off |-> ones(n_off), i_ref_on |-> ones(n_on)]
\* the aggregates that save_files combines
CombineInput(agg) == [NoCombine EXCEPT !.kind = "combine", !.pc = "save", !.agg = agg]

\* the inputs: the frames of an OFF and an ON acquisition of the same
\* number of shots, 1 .. MaxShots; or aggregates of every pair of axis
\* lengths 1 .. MaxAxis, in which either the mean absorbances or the mean
\* probe intensities vary
InitCombine ==
    /\ InitPrograms
    /\ ctl = CtlInit
    /\ timing = NoTiming
    /\ lib = LibInit
    /\ \/ \E n \in 1..MaxShots :
            \E off \in [1..n -> FramePairs], on \in [1..n -> FramePairs] :
               combine = MeasureInput(off, on)
       \/ \E n_off \in 1..MaxAxis, n_on \in 1..MaxAxis :
            \E off \in [1..n_off -> MeanAbsorbances], on \in [1..n_on -> MeanAbsorbances] :
               combine = CombineInput([Aggregates(n_off, n_on) EXCEPT !.a_off = off, !.a_on = on])
       \/ \E n_off \in 1..MaxAxis, n_on \in 1..MaxAxis :
            \E off \in [1..n_off -> MeanIntensities], on \in [1..n_on -> MeanIntensities] :
               combine = CombineInput([Aggregates(n_off, n_on) EXCEPT !.i_prb_off = off,
                                                                     !.i_prb_on = on])

\* acquire_state(ref, prb, label), l.72-73 and 78: the absorbance of every
\* shot and its mean over the shots
combine_acquire_state(label) ==
    /\ combine.kind = "measure" /\ combine.pc = label
    /\ LET frames == combine.shots[label]
           a_stack == [i \in 1..Len(frames) |-> absorbance(frames[i].prb, frames[i].ref)]
       IN  combine' = [combine EXCEPT
                         !.A_mean[label] = mean_0(a_stack, Len(frames[1].ref)),
                         !.pc = IF label = "OFF" THEN "ON" ELSE "delta_a"]
    /\ UNCHANGED <<cli, scan, session_vars, ctl, timing, lib>>

\* main, l.113: delta_a = a_on - a_off
combine_delta_a ==
    /\ combine.kind = "measure" /\ combine.pc = "delta_a"
    /\ combine' = [combine EXCEPT
                     !.result = [NoDifferential("None") EXCEPT
                                   !.delta_a_conventional =
                                       array_subtract(combine.A_mean["ON"], combine.A_mean["OFF"])],
                     !.pc = "done"]
    /\ UNCHANGED <<cli, scan, session_vars, ctl, timing, lib>>

\* save_files(run_dir) on the stored aggregates
combine_save_files ==
    /\ combine.kind = "combine" /\ combine.pc = "save"
    /\ combine' = [combine EXCEPT !.result = save_files(combine.agg), !.pc = "done"]
    /\ UNCHANGED <<cli, scan, session_vars, ctl, timing, lib>>

NextCombine ==
    \/ \E label \in {"OFF", "ON"} : combine_acquire_state(label)
    \/ combine_delta_a
    \/ combine_save_files

SpecCombine == InitCombine /\ [][NextCombine]_vars

\* =====================================================================
\* SpectrometerController: the methods of one controller object, called
\* in any order
\* =====================================================================

\* requests of an integration time, in microseconds: below, inside and
\* above the limits of every device
Requests == -1..6

\* is_connected: self.spectrometer is not None
is_connected == ctl.spectrometer # NoDevice

\* faulty variant: the request is handed to the device as it is
clamp_none(limits, microseconds) == microseconds
\* micros = max(limits[0], microseconds); micros = min(limits[1], micros)
clamp(limits, microseconds) ==
    LET micros == IF limits[1] > microseconds THEN limits[1] ELSE microseconds
    IN  IF limits[2] < micros THEN limits[2] ELSE micros

\* if not self.is_connected: raise OceanDirectError(...)
NotConnectedError(connected) == ~connected

\* outcomes of connect: everything succeeds, open_device raises, or one of
\* the three queries of the opened device raises
ConnectOutcomes == {"ok", "open_fails", "query_fails"}

\* faulty variant: the check of is_connected is missing, the controller is
\* bound to the device named by the call
ctl_connect_rebinds(device_id, outcome) ==
    /\ ctl' =
         IF outcome = "open_fails"
         THEN [ctl EXCEPT !.call = [op |-> "connect", arg |-> device_id,
                                    raised |-> TRUE, value |-> -1]]
         ELSE [ctl EXCEPT !.spectrometer = device_id,
                          !.device[device_id].open = TRUE,
                          !.wavelengths = get_wavelengths_size[device_id],
                          !.integration_time_limits = get_integration_time_limits[device_id],
                          !.call = [op |-> "connect", arg |-> device_id,
                                    raised |-> outcome # "ok", value |-> -1]]
    /\ UNCHANGED <<cli, scan, session_vars, timing, combine, lib>>
\* connect(device_id)
ctl_connect(device_id, outcome) ==
    /\ ctl' =
         IF is_connected
         THEN [ctl EXCEPT !.call = [op |-> "connect", arg |-> device_id,
                                    raised |-> TRUE, value |-> -1]]
         ELSE IF outcome = "open_fails"
         THEN [ctl EXCEPT !.call = [op |-> "connect", arg |-> device_id,
                                    raised |-> TRUE, value |-> -1]]
         ELSE IF outcome = "query_fails"
         THEN [ctl EXCEPT !.spectrometer = device_id,
                          !.device[device_id].open = TRUE,
                          !.call = [op |-> "connect", arg |-> device_id,
                                    raised |-> TRUE, value |-> -1]]
         ELSE [ctl EXCEPT !.spectrometer = device_id,
                          !.device[device_id].open = TRUE,
                          !.wavelengths = get_wavelengths_size[device_id],
                          !.integration_time_limits = get_integration_time_limits[device_id],
                          !.call = [op |-> "connect", arg |-> device_id,
                                    raised |-> FALSE, value |-> -1]]
    /\ UNCHANGED <<cli, scan, session_vars, timing, combine, lib>>

\* faulty variant: the axis and the limits of the device are kept
unbind_keeping_axis(c) == [c EXCEPT !.spectrometer = NoDevice]
\* finally: self.spectrometer = None; self.wavelengths = [];
\* self.integration_time_limits = (0, 0)
unbind(c) ==
    [c EXCEPT !.spectrometer = NoDevice,
              !.wavelengths = 0,
              !.integration_time_limits = <<0, 0>>]

\* disconnect(): close_device() may raise, which is printed; the finally
\* block unbinds the controller either way
ctl_disconnect(close_ok) ==
    /\ ctl' =
         IF is_connected
         THEN [unbind(ctl) EXCEPT
                          !.device[ctl.spectrometer].open = IF close_ok THEN FALSE ELSE @,
                          !.call = [op |-> "disconnect", arg |-> -1,
                                    raised |-> FALSE, value |-> -1]]
         ELSE [ctl EXCEPT !.call = [op |-> "disconnect", arg |-> -1,
                                    raised |-> FALSE, value |-> -1]]
    /\ UNCHANGED <<cli, scan, session_vars, timing, combine, lib>>

\* a read of the attribute self.wavelengths, as main_window.py does
ctl_wavelengths ==
    /\ ctl' = [ctl EXCEPT !.call = [op |-> "wavelengths", arg |-> -1,
                                    raised |-> FALSE, value |-> ctl.wavelengths]]
    /\ UNCHANGED <<cli, scan, session_vars, timing, combine, lib>>

\* set_integration_time(microseconds); the call of the device may raise
ctl_set_integration_time(microseconds, sdk_ok) ==
    /\ ctl' =
         IF NotConnectedError(is_connected)
         THEN [ctl EXCEPT !.call = [op |-> "set_integration_time", arg |-> microseconds,
                                    raised |-> TRUE, value |-> -1]]
         ELSE LET micros == clamp(ctl.integration_time_limits, microseconds)
              IN  [ctl EXCEPT !.device[ctl.spectrometer].integ = IF sdk_ok THEN micros ELSE @,
                              !.call = [op |-> "set_integration_time", arg |-> microseconds,
                                        raised |-> ~sdk_ok, value |-> micros]]
    /\ UNCHANGED <<cli, scan, session_vars, timing, combine, lib>>

\* acquire_spectrum(); get_formatted_spectrum() may raise
ctl_acquire_spectrum(sdk_ok) ==
    /\ ctl' =
         IF NotConnectedError(is_connected)
         THEN [ctl EXCEPT !.call = [op |-> "acquire_spectrum", arg |-> -1,
                                    raised |-> TRUE, value |-> -1]]
         ELSE [ctl EXCEPT !.call = [op |-> "acquire_spectrum", arg |-> -1,
                                    raised |-> ~sdk_ok,
                                    value |-> IF sdk_ok
                                              THEN get_wavelengths_size[ctl.spectrometer]
                                              ELSE -1]]
    /\ UNCHANGED <<cli, scan, session_vars, timing, combine, lib>>

NextCtl ==
    \/ \E device_id \in DeviceIds, outcome \in ConnectOutcomes : ctl_connect(device_id, outcome)
    \/ \E close_ok \in BOOLEAN : ctl_disconnect(close_ok)
    \/ ctl_wavelengths
    \/ \E microseconds \in Requests, sdk_ok \in BOOLEAN :
          ctl_set_integration_time(microseconds, sdk_ok)
    \/ \E sdk_ok \in BOOLEAN : ctl_acquire_spectrum(sdk_ok)

SpecCtl == Init /\ [][NextCtl]_vars

\* ------------------------------------ spectrum library of OceanDirectApp
\* A behaviour of SpecLib is a sequence of operations on the spectrum
\* library of one OceanDirectApp window.  A handler runs to its end before
\* the next one starts.  An exception that leaves a slot ends the program
\* (PyQt6 aborts on an unhandled exception); lib.raised names it.

\* texts the operator types when renaming an item
UserNames == {Label("User", 0), Label("Group", 1), Label("Spe", 2)}
\* column titles found in the header of an imported CSV file
ImportHeaders == {Label("Spe", 1), Label("User", 0)}
\* the spectrum columns of the header of a CSV file
Headers == UNION {[1..n -> ImportHeaders] : n \in 1..MaxColumns}
\* data_list.selectedItems(): the selected items, each once, in the order
\* Qt reports them
Selections(tree) ==
    {sel \in UNION {[1..n -> tree] : n \in 1..Cardinality(tree)} :
        \A a, b \in DOMAIN sel : sel[a] = sel[b] => a = b}
\* the items of a selection
Range(f) == {f[x] : x \in DOMAIN f}

\* item.childCount()
childCount(tree, item) == Cardinality({c \in tree : c.parent = item.id})
\* item.parent() of an item that is not at top level
ParentItem(tree, item) == CHOOSE g \in tree : g.id = item.parent
\* the exception leaves the slot
Raise(l, exception) == [l EXCEPT !.raised = exception]

\* acquire_spectrum, lines 175-183, after the controller returned the data
acquire_spectrum_store(l) ==
    LET label == Label("Spe", l.spectrum_counter)
        id == l.n_items + 1
        timestamp == l.clock + 1
    IN  [l EXCEPT !.spectrum_counter = @ + 1,
                  !.clock = timestamp,
                  !.n_items = id,
                  !.spectra_data = Put(@, label, Entry("spectrum", SpectrumData(id), timestamp)),
                  !.tree = @ \cup {TreeItem(id, label, 0, timestamp, FALSE)}]

\* acquire_spectrum: int(text), set_integration_time or acquire_spectrum of
\* the controller may raise ValueError / OceanDirectError, which is caught
acquire_spectrum(ok) ==
    /\ lib.raised = "None"
    /\ lib.n_items < MaxItems
    /\ lib' = IF ok THEN acquire_spectrum_store(lib) ELSE lib
    /\ UNCHANGED <<cli, scan, session_vars, ctl, timing, combine>>

\* load_data_from_csv, lines 427-430:
\*   while label in self.spectra_data: label = f"{original_label}_imported_{count}"
RECURSIVE UniqueLabel(_, _, _)
UniqueLabel(keys, original_label, count) ==
    LET label == IF count = 0 THEN original_label
                 ELSE [original_label EXCEPT !.imported = count]
    IN  IF label \in keys THEN UniqueLabel(keys, original_label, count + 1) ELSE label

\* load_data_from_csv, lines 424-440: the loop over the columns of header
RECURSIVE LoadColumns(_, _)
LoadColumns(l, header) ==
    IF header = <<>> THEN l
    ELSE LET label == UniqueLabel(DOMAIN l.spectra_data, Head(header), 0)
             id == l.n_items + 1
             timestamp == l.clock + 1
         IN  LoadColumns(
                 [l EXCEPT !.clock = timestamp,
                           !.n_items = id,
                           !.spectra_data =
                               Put(@, label, Entry("spectrum", SpectrumData(id), timestamp)),
                           !.tree = @ \cup {TreeItem(id, label, 0, timestamp, FALSE)}],
                 Tail(header))

\* load_data_from_csv: the first `good` columns hold numbers; float() of a
\* cell of the next one raises ValueError, which ends the loop and is caught
load_data_from_csv(header, good) ==
    /\ lib.raised = "None"
    /\ good <= Len(header)
    /\ lib.n_items + good <= MaxItems
    /\ lib' = LoadColumns(lib, SubSeq(header, 1, good))
    /\ UNCHANGED <<cli, scan, session_vars, ctl, timing, combine>>

\* group_selected_spectra, lines 254-258: pop every selected label that is
\* a key of spectra_data and collect it in new_group_data
RECURSIVE PopSelected(_, _, _)
PopSelected(sd, selected_items, new_group_data) ==
    IF selected_items = <<>>
    THEN [spectra_data |-> sd, list |-> new_group_data]
    ELSE LET label == Head(selected_items).text
         IN  IF label \in DOMAIN sd
             THEN PopSelected(Pop(sd, label), Tail(selected_items),
                              Append(new_group_data,
                                     Member(label, sd[label].payload, sd[label].timestamp)))
             ELSE PopSelected(sd, Tail(selected_items), new_group_data)

\* group_selected_spectra(selected_items)
group_selected_spectra(l, selected_items) ==
    LET new_gname == Label("Group", l.group_counter)
        popped == PopSelected(l.spectra_data, selected_items, <<>>)
        group_timestamp == l.clock + 1
        gid == l.n_items + 1
    IN  [l EXCEPT !.group_counter = @ + 1,
                  !.clock = group_timestamp,
                  !.n_items = gid,
                  !.spectra_data = Put(popped.spectra_data, new_gname,
                                       Entry("group", GroupData(popped.list), group_timestamp)),
                  !.tree = {IF i \in Range(selected_items) THEN [i EXCEPT !.parent = gid] ELSE i :
                               i \in @}
                           \cup {TreeItem(gid, new_gname, 0, group_timestamp, TRUE)}]

\* remove_items_from_group, lines 287-291: the members named in
\* labels_to_remove become top-level entries, the others stay in the list
RECURSIVE SplitGroup(_, _, _, _)
SplitGroup(sd, group_data_list, labels_to_remove, new_group_list) ==
    IF group_data_list = <<>>
    THEN [spectra_data |-> sd, list |-> new_group_list]
    ELSE LET m == Head(group_data_list)
         IN  IF m.label \in labels_to_remove
             THEN SplitGroup(Put(sd, m.label, Entry("spectrum", m.payload, m.timestamp)),
                             Tail(group_data_list), labels_to_remove, new_group_list)
             ELSE SplitGroup(sd, Tail(group_data_list), labels_to_remove,
                             Append(new_group_list, m))

\* dissolve_group, lines 310-313: every member becomes a top-level entry
RECURSIVE RestoreAll(_, _)
RestoreAll(sd, group_data) ==
    IF group_data = <<>> THEN sd
    ELSE LET m == Head(group_data)
         IN  RestoreAll(Put(sd, m.label, Entry("spectrum", m.payload, m.timestamp)),
                        Tail(group_data))

\* dissolve_group(group_item)
dissolve_group(l, group_item) ==
    IF group_item.parent # 0 THEN l
    ELSE LET g_label == group_item.text
             sd == l.spectra_data
         IN  [l EXCEPT !.spectra_data =
                           IF g_label \in DOMAIN sd
                           THEN RestoreAll(Pop(sd, g_label), sd[g_label].payload.list)
                           ELSE sd,
                       !.tree = {IF i.parent = group_item.id THEN [i EXCEPT !.parent = 0] ELSE i :
                                    i \in @ \ {group_item}}]

\* remove_items_from_group(items_to_remove): spectra_data[g_label] raises
\* KeyError for a missing key; unpacking the elements of the data of a
\* spectrum as (label, data, timestamp) raises TypeError
remove_items_from_group(l, items_to_remove) ==
    LET parent_item == ParentItem(l.tree, items_to_remove[1])
        g_label == parent_item.text
        sd == l.spectra_data
    IN  IF g_label \notin DOMAIN sd THEN Raise(l, "KeyError")
        ELSE IF sd[g_label].payload.data # 0 THEN Raise(l, "TypeError")
        ELSE LET labels_to_remove == {i.text : i \in Range(items_to_remove)}
                 split == SplitGroup(sd, sd[g_label].payload.list, labels_to_remove, <<>>)
                 moved == [l EXCEPT
                              !.spectra_data =
                                  Put(split.spectra_data, g_label,
                                      Entry("group", GroupData(split.list), sd[g_label].timestamp)),
                              !.tree = {IF i \in Range(items_to_remove)
                                        THEN [i EXCEPT !.parent = 0] ELSE i : i \in @}]
             IN  IF childCount(moved.tree, parent_item) <= 1
                 THEN dissolve_group(moved, parent_item)
                 ELSE moved

\* the selection is inside one group: toggle_group_action ungroups it
UngroupSelected(tree, selected_items) ==
    /\ selected_items[1].parent # 0
    /\ \A i \in Range(selected_items) : i.parent = selected_items[1].parent
\* the selection is two or more childless items, the first at top level:
\* toggle_group_action groups it
GroupSelected(tree, selected_items) ==
    /\ selected_items[1].parent = 0
    /\ Len(selected_items) > 1
    /\ \A i \in Range(selected_items) : childCount(tree, i) = 0

\* toggle_group_action with the items of selected_items selected
toggle_group_action(selected_items) ==
    /\ lib.raised = "None"
    /\ GroupSelected(lib.tree, selected_items) => lib.n_items < MaxItems
    /\ lib' = IF UngroupSelected(lib.tree, selected_items)
              THEN remove_items_from_group(lib, selected_items)
              ELSE IF GroupSelected(lib.tree, selected_items)
              THEN group_selected_spectra(lib, selected_items)
              ELSE lib
    /\ UNCHANGED <<cli, scan, session_vars, ctl, timing, combine>>

\* update_item_name, lines 350-355: the first member called old_name is
\* replaced by one called new_name
RenameFirst(group_list, old_name, new_name) ==
    IF \E k \in 1..Len(group_list) : group_list[k].label = old_name
    THEN LET k == CHOOSE k \in 1..Len(group_list) :
                     /\ group_list[k].label = old_name
                     /\ \A j \in 1..(k - 1) : group_list[j].label # old_name
         IN  [group_list EXCEPT ![k].label = new_name]
    ELSE group_list

\* the tree after the text of `item` became `text`
WithText(tree, item, text) == (tree \ {item}) \cup {[item EXCEPT !.text = text]}

\* edit_item_name and update_item_name: the operator double-clicks `item`
\* (its text is kept as old_name) and types new_name
update_item_name(item, new_name) ==
    /\ lib.raised = "None"
    /\ LET old_name == item.text
           sd == lib.spectra_data
       IN  lib' =
             IF old_name = new_name THEN lib
             ELSE IF new_name \in DOMAIN sd THEN lib
             ELSE IF old_name \notin DOMAIN sd
             THEN \* self.spectra_data.pop(old_name) raises KeyError
                  Raise([lib EXCEPT !.tree = WithText(@, item, new_name)], "KeyError")
             ELSE LET renamed == Put(Pop(sd, old_name), new_name, sd[old_name])
                      g_label == ParentItem(lib.tree, item).text
                  IN  [lib EXCEPT
                          !.tree = WithText(@, item, new_name),
                          !.spectra_data =
                              IF item.parent # 0 /\ g_label \in DOMAIN renamed
                                                /\ renamed[g_label].type = "group"
                              THEN [renamed EXCEPT ![g_label].payload.list =
                                                       RenameFirst(@, old_name, new_name)]
                              ELSE renamed]
    /\ UNCHANGED <<cli, scan, session_vars, ctl, timing, combine>>

\* delete_item, lines 375-377: pop(spec_label, None) for every member
RECURSIVE PopAll(_, _)
PopAll(sd, group_data) ==
    IF group_data = <<>> THEN sd
    ELSE PopAll(Pop(sd, Head(group_data).label), Tail(group_data))

\* delete_item(item), reached from the context menu of the item
delete_item(item) ==
    /\ lib.raised = "None"
    /\ LET sd == lib.spectra_data
           label == item.text
           removed == {i \in lib.tree : i # item /\ i.parent # item.id}
       IN  lib' =
             IF item.parent = 0 /\ childCount(lib.tree, item) > 0
             THEN IF label \notin DOMAIN sd THEN [lib EXCEPT !.tree = removed]
                  ELSE IF sd[label].payload.data # 0
                  THEN \* unpacking the elements of the data of a spectrum
                       Raise([lib EXCEPT !.spectra_data = Pop(sd, label)], "TypeError")
                  ELSE [lib EXCEPT !.spectra_data = PopAll(Pop(sd, label), sd[label].payload.list),
                                   !.tree = removed]
             ELSE IF item.parent # 0
             THEN LET g_label == ParentItem(lib.tree, item).text
                      filtered ==
                          IF g_label \in DOMAIN sd /\ sd[g_label].type = "group"
                          THEN [sd EXCEPT ![g_label].payload.list =
                                              SelectSeq(@, LAMBDA d : d.label # label)]
                          ELSE sd
                  IN  [lib EXCEPT !.spectra_data = Pop(filtered, label), !.tree = removed]
             ELSE [lib EXCEPT !.spectra_data = Pop(sd, label), !.tree = removed]
    /\ UNCHANGED <<cli, scan, session_vars, ctl, timing, combine>>

NextLib ==
    \/ \E ok \in BOOLEAN : acquire_spectrum(ok)
    \/ \E header \in Headers, good \in 0..MaxColumns : load_data_from_csv(header, good)
    \/ \E selected_items \in Selections(lib.tree) : toggle_group_action(selected_items)
    \/ \E item \in lib.tree, new_name \in UserNames : update_item_name(item, new_name)
    \/ \E item \in lib.tree : delete_item(item)

SpecLib == Init /\ [][NextLib]_vars

TypeOK ==
    /\ ui_state \in {"initial", "ready_for_off", "measuring", "ready_for_on"}
    /\ spectrometers \subseteq Channels
    /\ n_scans \in 1..MaxScans
    /\ progress_bar \in 0..MaxScans
    /\ thread_running \in BOOLEAN
    /\ gui_pc \in {"idle", "reset_wait"}
    /\ closed \in BOOLEAN
    /\ w_pc \in {"none", "started", "poll", "submit_ref", "submit_prb", "wait_ref",
                 "wait_prb", "record", "shutdown", "post_loop"} \cup Returned
    /\ w_i \in 0..MaxScans
    /\ \A c \in Channels : dev[c] \in {"open", "closed"} /\ inflight[c] \in 0..2
    /\ \A c \in Channels : integ[c] \in IntegMicros \cup {DeviceDefault}
    /\ active \in 0..MaxAcq
    /\ acq \in 0..MaxAcq


\* =====================================================================
\* Properties
\* =====================================================================

\* a step that starts an acquisition (a new worker thread is started)
AcquisitionStarts == acq' = acq + 1
\* a step in which on_acquisition_error handles the failure of the running acquisition
FailureHandled ==
    /\ ui_state = "measuring"
    /\ sigq # <<>>
    /\ Head(sigq).sig = "error"
    /\ sigq' = Tail(sigq)
\* an aggregate of the current worker is stored or queued for the GUI
AggregateOfWorker ==
    \/ a_off.gen = worker.gen
    \/ a_on.gen = worker.gen
    \/ \E k \in 1..Len(sigq) : sigq[k].sig = "finished" /\ sigq[k].result.gen = worker.gen
ChannelsReleased == spectrometers = {} /\ \A c \in Channels : dev[c] = "closed"

\* C1 (as stated): AcquiringOff is entered only from Initialized and
\* AcquiringOn only from ReadyForOn; no other state starts an acquisition.
C1_EntryOnlyFromInitialized ==
    [][AcquisitionStarts =>
          \/ AcquiringOff' /\ Initialized
          \/ AcquiringOn' /\ ReadyForOn]_vars

\* C1 (amended): AcquiringOff is entered only from Initialized or Complete,
\* AcquiringOn only from ReadyForOn; no other state starts an acquisition,
\* and the UI enters "measuring" only by starting one.
C1_AcquisitionEntry ==
    [][/\ AcquisitionStarts =>
             \/ AcquiringOff' /\ (Initialized \/ Complete)
             \/ AcquiringOn' /\ ReadyForOn
       /\ (ui_state' = "measuring" /\ ui_state # "measuring") => AcquisitionStarts]_vars

C1_Witness == AcquiringOn /\ w_pc = "started" /\ worker.gen = a_off.gen + 1

\* C2: a failed acquisition returns the session to its pre-attempt state:
\* Initialized after a failed OFF acquisition, ReadyForOn (OFF aggregate
\* still stored) after a failed ON acquisition.
C2_FailureReturnsToPreAttemptState ==
    [][FailureHandled =>
          IF worker.label = "ON"
          THEN ReadyForOn' /\ a_off' = a_off /\ a_off # NoAgg
          ELSE Initialized']_vars

C4_ResetDiscardsEverything ==
    /\ UserCan => ENABLED (ResetClicked \/ CloseEvent)
    /\ (Idle /\ ui_caller = "reset_connection") =>
           a_off = NoAgg /\ a_on = NoAgg /\ ChannelsReleased

\* C5 (as stated): the only transition that leaves Complete is Reset.
C5_CompleteLeftOnlyByReset ==
    [][(Complete /\ ~Complete') => (Idle' /\ ui_caller' = "reset_connection")]_vars

\* C5 (amended): Complete is left only by Reset or by start_off, which
\* starts a new OFF acquisition; start_on cannot start one from Complete.
C5_CompleteLeftByResetOrStartOff ==
    [][(Complete /\ ~Complete') =>
          \/ Idle' /\ ui_caller' = "reset_connection"
          \/ AcquiringOff' /\ AcquisitionStarts]_vars

C5_Witness == AcquiringOff /\ report_text # NoResult /\ report_text.on.gen + 1 = worker.gen

\* C6: ReadyForOn and AcquiringOn imply a stored OFF aggregate; Complete
\* implies both aggregates are stored and the plotted/saved differential
\* result and the report were computed from exactly those two.
C6_StoredAggregates ==
    /\ (ReadyForOn \/ AcquiringOn) => a_off.label = "OFF"
    /\ Complete =>
          /\ a_off.label = "OFF"
          /\ a_on.label = "ON"
          /\ delta_a = [off |-> a_off, on |-> a_on]
          /\ report_text = [off |-> a_off, on |-> a_on]

C6_Witness == Complete /\ a_on.gen = 2 /\ Len(a_on.ts_ref_list) = 2

\* C7: at most one acquisition worker runs at a time, and none is started
\* while one is running.
C7_SingleAcquisition ==
    /\ active <= 1
    /\ (active = 1 /\ ~WorkerReturned) => ui_state = "measuring" \/ closed
    /\ (UserCan /\ ui_state = "measuring") =>
          ~ENABLED (\/ \E o \in InitOutcomes : initialize_spectrometers(o)
                    \/ \E integ_us \in IntegMicros : start_off_measurement(integ_us, "ok", "Yes")
                    \/ start_on_measurement("Yes"))

C7_Witness == active = 1 /\ UserCan /\ acq < MaxAcq /\ fut["ref"] = "reading"

\* C8: shots are sequential: no read of the next shot is issued before both
\* reads of the current shot have returned; a channel never has two reads
\* in flight.
C8_ShotsSequential ==
    /\ \A c \in Channels : inflight[c] <= 1
    /\ w_pc \in {"poll", "submit_ref", "post_loop"} => \A c \in Channels : inflight[c] = 0
    /\ w_pc = "submit_prb" => inflight["probe"] = 0

C8_Witness == w_pc = "submit_prb" /\ w_i = 1 /\ inflight["ref"] = 1

\* C9: both reads of a shot are issued before the worker waits for either:
\* the probe read is issued whatever the state of the reference read, a
\* queued read is never held back by the other one, and the shot is
\* recorded only when both reads have returned.
C9_PairedReadsConcurrent ==
    /\ w_pc = "submit_prb" => ENABLED WSubmitProbe
    /\ \A c \in Channels : fut[c] = "pending" => ENABLED PoolStart(c)
    /\ w_pc = "record" => \A c \in Channels : fut[c] = "ok" /\ inflight[c] = 0

C9_Witness == fut["probe"] = "reading" /\ fut["ref"] = "pending" /\ w_pc = "wait_ref"

\* C10: cancellation takes effect at the poll point only: the loop is left
\* only at the poll (or by an exception), run() returns only with no read
\* in flight, and a channel is closed only with no read in flight.
C10_LoopLeftOnlyAtPoll ==
    [][/\ (w_pc' = "post_loop" /\ w_pc # "post_loop") => w_pc = "poll"
       /\ (w_pc' = "cancelled" /\ w_pc # "cancelled") => w_pc = "post_loop"
       /\ (w_pc' \in Returned /\ w_pc \notin Returned) => \A c \in Channels : inflight[c] = 0
       /\ \A c \in Channels : (dev'[c] = "closed" /\ dev[c] = "open") => inflight[c] = 0]_vars

C10_Witness == ~worker.is_running /\ w_pc = "record" /\ gui_pc = "reset_wait"

\* C11: the cancellation flag is looked at before each shot: a shot is
\* started only from the poll with the flag clear; with the flag set the
\* poll starts no shot and leaves the loop; after the loop a set flag makes
\* run() return with no signal emitted, even when every shot was taken; a
\* cancelled run has issued no read beyond its completed shots and none of
\* its data is stored or queued.
C11_CancelStopsShots ==
    /\ [][/\ (w_pc' = "submit_ref" /\ w_pc # "submit_ref")
                => (w_pc = "poll" /\ worker.is_running)
          /\ (w_pc = "poll" /\ ~worker.is_running /\ w_pc' # w_pc)
                => (w_pc' = "post_loop" /\ n_reads' = n_reads)
          /\ (w_pc = "post_loop" /\ ~worker.is_running /\ w_pc' # w_pc)
                => (w_pc' = "cancelled" /\ sigq' = sigq /\ emitted' = emitted)]_vars
    /\ [](w_pc = "cancelled"
            => /\ ~AggregateOfWorker
               /\ \A c \in Channels : n_reads[c] = w_i
               /\ \A k \in 1..Len(emitted) : emitted[k].sig = "progress")

C11_Witness == w_pc = "cancelled" /\ w_i = worker.n_scans /\ worker.n_scans = MaxScans

\* C13: a failed read of either channel ends the acquisition at that shot:
\* the wait on a failed future leaves the loop, the worker emits the error
\* signal without completing the shot, the GUI can take the error, and no
\* aggregate of that worker is stored or queued; a shot is recorded and a
\* run finishes only with no failed read.
C13_ReadFailureStopsAcquisition ==
    /\ [][/\ (w_pc = "wait_ref" /\ fut["ref"] = "failed" /\ w_pc' # w_pc)
                => w_pc' = "shutdown"
          /\ (w_pc = "wait_prb" /\ fut["probe"] = "failed" /\ w_pc' # w_pc)
                => w_pc' = "shutdown"
          /\ (w_pc = "shutdown" /\ w_pc' # w_pc)
                => /\ w_pc' = "error"
                   /\ w_i' = w_i /\ ts_ref' = ts_ref /\ ts_prb' = ts_prb
                   /\ n_reads' = n_reads
                   /\ Len(sigq') = Len(sigq) + 1
                   /\ sigq'[Len(sigq')].sig = "error"]_vars
    /\ [](/\ w_pc \in {"shutdown", "error"} => ~AggregateOfWorker
          /\ w_pc \in {"record", "finished"} => \A c \in Channels : fut[c] # "failed"
          /\ (GuiIdle /\ sigq # <<>> /\ Head(sigq).sig = "error")
                => ENABLED on_acquisition_error)

C13_Witness ==
    /\ w_pc = "error" /\ w_i = 1
    /\ fut["probe"] = "failed" /\ fut["ref"] = "ok"
    /\ sigq # <<>> /\ sigq[Len(sigq)].sig = "error"

\* C14 (as claimed): the error signal of a failed shot names every channel
\* whose read failed and the index of the shot.
C14_FailureNamesChannelAndShot ==
    [][(w_pc = "shutdown" /\ w_pc' = "error")
          => LET e == sigq'[Len(sigq')]
             IN  /\ e.channels = {c \in Channels : fut[c] = "failed"}
                 /\ e.shot = w_i]_vars

\* C15 (as claimed): each channel is read at most once per shot index and
\* no read is issued on either channel once a read of the acquisition failed.
C15_NoReadAfterFailure ==
    /\ [](\A c \in Channels : n_reads[c] \in {w_i, w_i + 1})
    /\ [][((\E c \in Channels : fut[c] = "failed") /\ acq' = acq)
             => n_reads' = n_reads]_vars

\* C15 (amended): each channel is read at most once per shot index, a failed
\* read is never issued again and no read of a later shot is issued after a
\* failure; the only read issued after a failed read is the probe read of
\* the same shot, when the reference read failed before it was submitted.
C15_NoRetryNoLaterShot ==
    /\ [](/\ \A c \in Channels : n_reads[c] \in {w_i, w_i + 1}
          /\ w_pc \in {"poll", "submit_ref", "post_loop", "finished", "cancelled"}
                => \A c \in Channels : n_reads[c] = w_i)
    /\ [][((\E c \in Channels : fut[c] = "failed") /\ acq' = acq /\ n_reads' # n_reads)
             => /\ w_pc = "submit_prb"
                /\ fut["ref"] = "failed"
                /\ n_reads["probe"] = w_i
                /\ n_reads' = [n_reads EXCEPT !["probe"] = w_i + 1]]_vars

C15_Witness ==
    /\ w_pc = "submit_prb" /\ w_i = 1
    /\ fut["ref"] = "failed" /\ n_reads["probe"] = 1
    /\ ENABLED WSubmitProbe

\* C16: the progress signals emitted by a run are numbered 1, 2, ... with
\* the label of the run, one per completed shot and none for a shot that
\* did not complete; they precede the finished or error signal, and a run
\* that finishes has emitted exactly n_scans of them before the aggregate.
C16_ProgressPerCompletedShot ==
    LET p == SelectSeq(emitted, LAMBDA e : e.sig = "progress")
    IN  /\ Len(p) = w_i
        /\ Len(ts_ref) = w_i /\ Len(ts_prb) = w_i
        /\ \A k \in 1..Len(p) : p[k].count = k /\ p[k].label = worker.label
        /\ \A k \in 1..Len(emitted) : emitted[k].sig # "progress" => k = Len(emitted)
        /\ w_pc = "finished"
              => /\ Len(emitted) = worker.n_scans + 1
                 /\ emitted[Len(emitted)].sig = "finished"

C16_Witness == w_pc = "finished" /\ worker.n_scans = MaxScans /\ Len(emitted) = MaxScans + 1

\* C20: the stored OFF aggregate changes only when the finished signal of an
\* OFF acquisition is handled, and then becomes that result; no step taken
\* while the worker is an ON worker, and no handling of a signal of an ON
\* acquisition, changes it.
C20_OffAggregateImmutable ==
    [][/\ (worker.label = "ON" /\ worker'.label = "ON") => a_off' = a_off
       /\ (sigq # <<>> /\ Head(sigq).label = "ON" /\ sigq' = Tail(sigq)) => a_off' = a_off
       /\ a_off' # a_off
             => /\ sigq # <<>>
                /\ Head(sigq).sig = "finished" /\ Head(sigq).label = "OFF"
                /\ a_off' = Head(sigq).result]_vars

C20_Witness ==
    /\ worker.label = "ON" /\ w_pc = "error" /\ sigq = <<>> /\ gui_pc = "idle"
    /\ a_off # NoAgg /\ a_off.gen = worker.gen - 1

\* C19: while run() of a worker is executing, and while a read is in flight
\* on a channel, no integration time is applied and no channel is closed;
\* this includes a window close requested during the acquisition, whose
\* reset waits for the worker to return before it closes the channels.
C19_NoReconfigurationWhileAcquiring ==
    [][/\ (w_pc \notin Returned \cup {"none"}) => (integ' = integ /\ dev' = dev)
       /\ \A c \in Channels : inflight[c] > 0 => (integ'[c] = integ[c] /\ dev'[c] = dev[c])
       /\ (gui_pc = "reset_wait" /\ ~WorkerReturned) => (integ' = integ /\ dev' = dev)]_vars

C19_Witness ==
    /\ closed /\ gui_pc = "reset_wait"
    /\ fut["ref"] = "reading" /\ fut["probe"] = "reading" /\ w_i = 1
    /\ \A c \in Channels : dev[c] = "open" /\ integ[c] \in IntegMicros

\* C12: every aggregate returned by acquire_state has reference and probe
\* timestamp series with exactly N_SCANS entries, and a
\* mean absorbance of the size of the wavelength axis (the pixel count of
\* the reference device); an acquisition that did not fail has returned one.
C12_AggregateShape ==
    /\ \A r \in {cli.off, cli.on} :
          r # NoCliResult =>
             /\ Len(r.ts_ref) = cli.N_SCANS
             /\ Len(r.ts_prb) = cli.N_SCANS
             /\ r.wl_size = cli.pixels["ref"]
             /\ r.A_mean_size = r.wl_size
    /\ cli.pc = "input_on" => cli.off.label = "OFF"
    /\ cli.pc \in {"close_ref", "close_prb", "post_processing"}
          => (cli.off.label = "OFF" /\ cli.on.label = "ON")

C12_Witness ==
    /\ cli.pc = "post_processing" /\ cli.N_SCANS = MaxScans
    /\ cli.pixels["ref"] = 3 /\ cli.pixels["probe"] = 1
    /\ cli.on.A_mean_size = 3 /\ Len(cli.on.ts_prb) = MaxScans

\* C17 (as claimed): whenever a read has a timestamp, the read returned
\* before the timestamp was taken.
C17_StampAfterReadReturns ==
    /\ \A c \in Channels :
          cli.t[c].stamp # 0 => (cli.t[c].ret # 0 /\ cli.t[c].ret < cli.t[c].stamp)
    /\ scan.t.stamp # 0 => (scan.t.ret # 0 /\ scan.t.ret < scan.t.stamp)

\* C17 (amended): in grab_once the timestamp is taken before the read is
\* issued, so it precedes the return of the read; in the measurement loop
\* of plot_scan_timing.py the timestamp is taken after the read returned.
C17_StampBeforeIssueOrAfterReturn ==
    /\ \A c \in Channels :
          /\ cli.t[c].issue # 0 => (cli.t[c].stamp # 0 /\ cli.t[c].stamp < cli.t[c].issue)
          /\ cli.t[c].ret # 0 => (cli.t[c].issue # 0 /\ cli.t[c].issue < cli.t[c].ret)
          /\ cli.fut[c] = "ok" => (cli.t[c].stamp # 0 /\ cli.t[c].ret # 0)
    /\ scan.t.ret # 0 => (scan.t.issue # 0 /\ scan.t.issue < scan.t.ret)
    /\ scan.t.stamp # 0 => (scan.t.ret # 0 /\ scan.t.ret < scan.t.stamp)
    /\ Len(scan.timestamps) = scan.i
    /\ (scan.pc = "loop" /\ scan.step = 0 /\ scan.i > 0) => scan.t.stamp # 0

C17_Witness ==
    /\ cli.pc = "record" /\ cli.i = 1
    /\ cli.t["probe"].stamp < cli.t["ref"].stamp
    /\ cli.t["ref"].ret < cli.t["probe"].issue

\* C18 (as claimed, for notoriger.py): when main() has ended, by the end of
\* the measurement or by sys.exit or an exception, both handles are closed.
C18_HandlesReleasedOnEveryExit ==
    cli.pc \in {"exited", "post_processing"} => \A c \in Channels : ~cli.open[c]

\* a list of ISO-8601 timestamps that never decreases in list order
NonDecreasing(lst) ==
    \A j \in 1..Len(lst), k \in 1..Len(lst) :
        j < k => isoparse(lst[j]) <= isoparse(lst[k])

\* C30: with a host clock that never goes backwards, the reference
\* timestamps and the probe timestamps of one state acquisition are each
\* non-decreasing in shot order, while the acquisition runs and in the
\* aggregates it returns, whichever read of a shot is stamped first.
C30_TimestampsMonotone ==
    /\ NonDecreasing(cli.ts_ref) /\ NonDecreasing(cli.ts_prb)
    /\ NonDecreasing(cli.off.ts_ref) /\ NonDecreasing(cli.off.ts_prb)
    /\ NonDecreasing(cli.on.ts_ref) /\ NonDecreasing(cli.on.ts_prb)

\* the probe read of the first shot was stamped before the reference read,
\* the reference read of the second shot before the probe read, and the
\* timestamps of the two shots lie in different seconds
C30_Witness ==
    /\ cli.off.label = "OFF" /\ Len(cli.off.ts_ref) = 2
    /\ isoparse(cli.off.ts_prb[1]) < isoparse(cli.off.ts_ref[1])
    /\ isoparse(cli.off.ts_ref[2]) < isoparse(cli.off.ts_prb[2])
    /\ cli.off.ts_ref[1].sec < cli.off.ts_ref[2].sec
    /\ cli.off.ts_ref[2].usec < cli.off.ts_ref[1].usec

\* C21: on a connected controller holding the limits min <= max,
\* set_integration_time(x) hands to the device min if x < min, max if
\* x > max and x otherwise, for every requested x; the device then holds
\* that value, and no error is raised unless the call of the device fails.
C21_ClampedSilently ==
    [][\A x \in Requests, sdk_ok \in BOOLEAN :
          (is_connected /\ ctl_set_integration_time(x, sdk_ok)) =>
              LET min == ctl.integration_time_limits[1]
                  max == ctl.integration_time_limits[2]
                  applied == IF x < min THEN min ELSE IF x > max THEN max ELSE x
              IN  /\ min <= max
                  /\ ctl'.call.value = applied
                  /\ ctl'.call.raised = ~sdk_ok
                  /\ sdk_ok => ctl'.device[ctl.spectrometer].integ = applied
                  /\ ctl'.spectrometer = ctl.spectrometer
                  /\ ctl'.integration_time_limits = ctl.integration_time_limits]_vars

\* a request above the maximum of device 1 was cut to the maximum, after
\* device 2, whose minimum equals its maximum, had been set as well
C21_Witness ==
    /\ ctl.spectrometer = 1
    /\ ctl.integration_time_limits = <<2, 4>>
    /\ ctl.call = [op |-> "set_integration_time", arg |-> 6, raised |-> FALSE, value |-> 4]
    /\ ctl.device[1].integ = 4
    /\ ctl.device[2].integ = 3

\* a call of one of the three operations on a controller with no device
CalledUnbound(call) == ~is_connected /\ call
\* the step left the controller and the devices as they were
ChannelStateUnchanged == [ctl' EXCEPT !.call = ctl.call] = ctl

\* C22 (as claimed): on a controller with no device bound, reading the
\* wavelength axis, set_integration_time and acquire_spectrum each fail
\* with the not-connected error and leave the channel state unchanged.
C22_UnboundCallsFail ==
    [][CalledUnbound(\/ ctl_wavelengths
                     \/ \E x \in Requests, sdk_ok \in BOOLEAN : ctl_set_integration_time(x, sdk_ok)
                     \/ \E read_ok \in BOOLEAN : ctl_acquire_spectrum(read_ok))
          => ctl'.call.raised /\ ChannelStateUnchanged]_vars

\* C22 (amended): on a controller with no device bound,
\* set_integration_time and acquire_spectrum fail with the not-connected
\* error, whereas reading the wavelength axis does not fail and yields the
\* empty axis; all three leave the channel state unchanged.
C22_UnboundCallsFailAxisEmpty ==
    /\ [][/\ CalledUnbound(\/ \E x \in Requests, sdk_ok \in BOOLEAN :
                                  ctl_set_integration_time(x, sdk_ok)
                            \/ \E read_ok \in BOOLEAN : ctl_acquire_spectrum(read_ok))
             => ctl'.call.raised /\ ctl'.call.value = -1 /\ ChannelStateUnchanged
          /\ CalledUnbound(ctl_wavelengths)
             => ~ctl'.call.raised /\ ctl'.call.value = 0 /\ ChannelStateUnchanged]_vars
    /\ [](~is_connected => ctl.wavelengths = 0 /\ ctl.integration_time_limits = <<0, 0>>)

\* the wavelength axis was read on a controller that had been bound to
\* device 1 and was disconnected, and after the read set_integration_time
\* and acquire_spectrum are refused
C22_Witness ==
    /\ ~is_connected
    /\ ctl.device[1].integ = 4 /\ ~ctl.device[1].open
    /\ ctl.call = [op |-> "wavelengths", arg |-> -1, raised |-> FALSE, value |-> 0]
    /\ ENABLED (ctl_set_integration_time(3, TRUE) /\ ctl'.call.raised)
    /\ ENABLED (ctl_acquire_spectrum(TRUE) /\ ctl'.call.raised)

\* the intervals between the successive timestamps of the analysed series
Gaps ==
    [j \in 1..(Len(timing.ts_list) - 1) |->
        isoparse(timing.ts_list[j + 1]) - isoparse(timing.ts_list[j])]
\* the ideal period of the analysed series, in microseconds
Period == 1000000 \div timing.ideal_hz

\* C23: the dropped-cycle estimate of evaluate_timing is the number of
\* successive intervals strictly greater than 1.5 periods; a series whose
\* intervals all equal the period has mean error 0 and dropped count 0,
\* and one with exactly one interval of two periods among intervals of
\* one period has dropped count 1.
C23_DroppedCycleEstimate ==
    \A k \in 1..Len(timing.summaries) :
        LET summary == timing.summaries[k]
        IN  summary.raised = "None" =>
              /\ summary.n = Len(Gaps)
              /\ summary.lost = Cardinality({j \in 1..Len(Gaps) : 2 * Gaps[j] > 3 * Period})
              /\ (\A j \in 1..Len(Gaps) : Gaps[j] = Period)
                    => ~summary.mean.nan /\ summary.mean.num = 0 /\ summary.lost = 0
              /\ (\E j \in 1..Len(Gaps) :
                      /\ Gaps[j] = 2 * Period
                      /\ \A i \in 1..Len(Gaps) : i # j => Gaps[i] = Period)
                    => summary.lost = 1

\* a series with the period 1 ms whose second interval was replaced by
\* 2 ms has been analysed
C23_Witness ==
    /\ timing.kind = "series" /\ timing.ideal_hz = 1000
    /\ timing.ts_list = TimestampsFrom(ClockStart, <<1000, 2000, 1000>>)
    /\ Len(timing.summaries) = 1
    /\ timing.summaries[1].lost = 1

\* C24: the lag of shot i is the probe timestamp minus the reference
\* timestamp of shot i, whichever of the two is the earlier one and
\* whatever the zero instant t0 is.
C24_LagIsProbeMinusRef ==
    \A k \in 1..Len(timing.lags) :
        /\ Len(timing.lags[k].dt) = Len(timing.ts_ref)
        /\ \A i \in 1..Len(timing.ts_ref) :
              timing.lags[k].dt[i] = isoparse(timing.ts_prb[i]) - isoparse(timing.ts_ref[i])

\* a lag was computed for two shots where the probe read of the first shot
\* was stamped before the reference read, in the second before t0, and
\* t0 is not the first reference timestamp
C24_Witness ==
    /\ timing.kind = "lag" /\ Len(timing.lags) = 1
    /\ timing.t0 = now_iso(1000000)
    /\ timing.ts_ref = <<now_iso(999999), now_iso(1000002)>>
    /\ timing.ts_prb = <<now_iso(999998), now_iso(1000002)>>
    /\ timing.lags[1].dt = <<-1, 0>>

C26_SingleShotAnalysisCompletes ==
    /\ \A k \in 1..Len(timing.summaries) :
          Len(timing.ts_list) = 1 =>
              timing.summaries[k].raised = "None" /\ timing.summaries[k].std.nan
    /\ \A k \in 1..Len(timing.lags) :
          Len(timing.ts_ref) = 1 =>
              ~timing.lags[k].mean.nan /\ timing.lags[k].std.nan

\* the differential results of the combined aggregates are there
Combined == combine.kind = "combine" /\ combine.pc = "done"
\* both acquisitions and the difference of their means are there
Measured == combine.kind = "measure" /\ combine.pc = "done"

IsDifference(d, x, y) ==
    IF isfinite(x) /\ isfinite(y)
    THEN /\ isfinite(d)
         /\ d.num * x.den * y.den = (x.num * y.den - y.num * x.den) * d.den
    ELSE ~isfinite(d)
\* delta_a_conventional is the element-wise difference of the mean
\* absorbances of ON and OFF, on their shared axis
ConventionalIsDifference(a_on_mean, a_off_mean) ==
    Len(a_on_mean) = Len(a_off_mean) =>
        /\ combine.result.raised = "None"
        /\ Len(combine.result.delta_a_conventional) = Len(a_on_mean)
        /\ \A k \in 1..Len(a_on_mean) :
              IsDifference(combine.result.delta_a_conventional[k], a_on_mean[k], a_off_mean[k])
\* reference and probe intensities are identical in every shot of both states
IdenticalIntensities ==
    \A label \in {"OFF", "ON"} : \A i \in 1..Len(combine.shots[label]) :
        combine.shots[label][i].ref = combine.shots[label][i].prb
\* no intensity of any shot is zero
NoZeroIntensity ==
    \A label \in {"OFF", "ON"} : \A i \in 1..Len(combine.shots[label]) :
        \A k \in 1..Len(combine.shots[label][i].ref) :
            combine.shots[label][i].ref[k] # 0 /\ combine.shots[label][i].prb[k] # 0

\* C28 (as claimed): delta_a_conventional[k] = ON.mean_absorbance[k] -
\* OFF.mean_absorbance[k] at every pixel; equal OFF and ON mean probe
\* intensities give delta_a_probe = 0 at every pixel; identical reference
\* and probe intensities in every shot of both states give
\* delta_a_conventional = 0 at every pixel.
C28_DifferentialsElementwise ==
    /\ Combined =>
          /\ ConventionalIsDifference(combine.agg.a_on, combine.agg.a_off)
          /\ combine.agg.i_prb_off = combine.agg.i_prb_on =>
                \A k \in 1..Len(combine.agg.i_prb_on) : iszero(combine.result.delta_a_probe[k])
    /\ Measured =>
          /\ ConventionalIsDifference(combine.A_mean["ON"], combine.A_mean["OFF"])
          /\ IdenticalIntensities =>
                \A k \in 1..Len(combine.result.delta_a_conventional) :
                    iszero(combine.result.delta_a_conventional[k])

\* C28 (amended): delta_a_conventional[k] = ON.mean_absorbance[k] -
\* OFF.mean_absorbance[k] at every pixel; equal OFF and ON mean probe
\* intensities that are not zero give delta_a_probe = 0 at every pixel;
\* identical reference and probe intensities that are not zero, in every
\* shot of both states, give delta_a_conventional = 0 at every pixel.  At
\* a pixel where the intensity is zero the result is nan.
C28_DifferentialsElementwiseNonZero ==
    /\ Combined =>
          /\ ConventionalIsDifference(combine.agg.a_on, combine.agg.a_off)
          /\ combine.agg.i_prb_off = combine.agg.i_prb_on =>
                \A k \in 1..Len(combine.agg.i_prb_on) :
                    IF iszero(combine.agg.i_prb_on[k])
                    THEN combine.result.delta_a_probe[k] = nan
                    ELSE iszero(combine.result.delta_a_probe[k])
    /\ Measured =>
          /\ ConventionalIsDifference(combine.A_mean["ON"], combine.A_mean["OFF"])
          /\ IdenticalIntensities =>
                IF NoZeroIntensity
                THEN \A k \in 1..Len(combine.result.delta_a_conventional) :
                        iszero(combine.result.delta_a_conventional[k])
                ELSE combine.result.delta_a_conventional[1] = nan

\* aggregates with the equal mean probe intensities 1 and 10 on an axis of
\* two pixels have been combined
C28_Witness ==
    /\ Combined
    /\ combine.agg.i_prb_off = <<fin(1, 1), fin(10, 1)>>
    /\ combine.agg.i_prb_on = combine.agg.i_prb_off
    /\ combine.result.delta_a_probe = <<fin(0, 1), fin(0, 1)>>
    /\ Len(combine.result.delta_a_conventional) = 2

\* the absorbance of shot i of a state at pixel k is not finite
ShotNotFinite(label, i, k) ==
    ~isfinite(absorbance(combine.shots[label][i].prb, combine.shots[label][i].ref)[k])

\* C29: a pixel whose absorbance is not finite in at least one shot is
\* neither filtered out nor replaced nor an error: the acquisition
\* completes, the mean absorbance at that pixel is not finite, and neither
\* is the differential result at that pixel.
C29_NonFinitePropagates ==
    /\ \A label \in {"OFF", "ON"} :
          (combine.kind = "measure" /\ combine.A_mean[label] # <<>>) =>
              /\ Len(combine.A_mean[label]) = Len(combine.shots[label][1].ref)
              /\ \A k \in 1..Len(combine.A_mean[label]) :
                    (\E i \in 1..Len(combine.shots[label]) : ShotNotFinite(label, i, k))
                        => ~isfinite(combine.A_mean[label][k])
    /\ (combine.kind = "measure" /\ combine.pc # "OFF") => combine.A_mean["OFF"] # <<>>
    /\ (combine.kind = "measure" /\ combine.pc \in {"delta_a", "done"})
          => combine.A_mean["ON"] # <<>>
    /\ Measured =>
          /\ combine.result.raised = "None"
          /\ \A k \in 1..Len(combine.A_mean["ON"]) :
                (~isfinite(combine.A_mean["ON"][k]) \/ ~isfinite(combine.A_mean["OFF"][k]))
                    => ~isfinite(combine.result.delta_a_conventional[k])
    /\ (Combined /\ combine.result.raised = "None") =>
          \A k \in 1..Len(combine.result.delta_a_conventional) :
              (~isfinite(Broadcast(combine.agg.a_on, k)) \/ ~isfinite(Broadcast(combine.agg.a_off, k)))
                  => ~isfinite(combine.result.delta_a_conventional[k])

\* at the first pixel the probe intensity was zero in one OFF shot and
\* positive in the other, all ON shots were finite; the OFF mean is inf
\* there and the difference is -inf, while the second pixel is finite
C29_Witness ==
    /\ Measured
    /\ Len(combine.shots["OFF"]) = 2
    /\ combine.shots["OFF"][1].prb[1] = 0 /\ combine.shots["OFF"][1].ref[1] = 10
    /\ combine.shots["OFF"][2].prb[1] = 1 /\ combine.shots["OFF"][2].ref[1] = 10
    /\ combine.A_mean["OFF"][1] = inf
    /\ isfinite(combine.A_mean["ON"][1])
    /\ combine.result.delta_a_conventional[1] = neg_inf
    /\ iszero(combine.result.delta_a_conventional[2])

\* C32: in one run of the acquisition worker at most one of the signals
\* finished and error is emitted, at most once, and it is the last signal of
\* the run (no progress signal follows it); a run that ends by cancellation
\* has emitted neither; a run that ends otherwise has emitted exactly the
\* one that names its outcome.
C32_AtMostOneTerminalSignal ==
    LET term == SelectSeq(emitted, LAMBDA e : e.sig \in {"finished", "error"})
    IN  /\ Len(term) <= 1
        /\ \A k \in 1..Len(emitted) :
              emitted[k].sig \in {"finished", "error"} => k = Len(emitted)
        /\ w_pc = "cancelled" => term = <<>>
        /\ w_pc \in {"finished", "error"} => (Len(term) = 1 /\ term[1].sig = w_pc)
        /\ w_pc \notin Returned => term = <<>>

C32_Witness ==
    /\ w_pc = "cancelled" /\ Len(emitted) = 1 /\ emitted[1].sig = "progress"
    /\ worker.n_scans = MaxScans

\* the worker thread cannot execute its next statement
WorkerBlocked == w_pc \notin Returned \cup {"none"} /\ ~ENABLED WorkerStep

\* C31: if every hardware read eventually returns or fails, a started
\* acquisition of N shots eventually ends; it has issued at most N reads per
\* channel; it ends in exactly one of three outcomes: the aggregate emitted
\* (and nothing else after it), the failure emitted, or cancelled with
\* neither emitted; and whenever the worker cannot proceed it is waiting for
\* a submitted read, which a pool thread can take up or which is inside the
\* hardware call.
C31_AcquisitionTerminates ==
    /\ [](\A c \in Channels : n_reads[c] <= worker.n_scans /\ n_reads[c] <= w_i + 1)
    /\ [](WorkerReturned =>
            LET last == IF emitted = <<>> THEN "none" ELSE emitted[Len(emitted)].sig
            IN  /\ w_pc = "finished" <=> last = "finished"
                /\ w_pc = "error" <=> last = "error"
                /\ w_pc = "cancelled" <=> last \in {"none", "progress"})
    /\ [](WorkerBlocked =>
            /\ \E c \in Channels : fut[c] \in {"pending", "reading"}
            /\ \A c \in Channels : fut[c] = "pending" => ENABLED PoolStart(c))
    /\ (w_pc = "started" ~> WorkerReturned)

C31_Witness ==
    /\ w_pc = "finished" /\ worker.n_scans = MaxScans
    /\ \A c \in Channels : n_reads[c] = MaxScans

\* C33: the differential result and the lags are computed from the stored
\* OFF aggregate and the ON aggregate of the acquisition started right after
\* it: while the ON acquisition can be started or is running, the stored
\* OFF aggregate is the one of the latest earlier acquisition; the ON button
\* becomes available only by storing a finished OFF acquisition; and a step
\* that initializes or resets the channels, or that handles a failed
\* acquisition, leaves the ON acquisition unavailable until a new OFF
\* acquisition has finished.
C33_OffAggregateOfThisRun ==
    /\ []((ReadyForOn \/ AcquiringOn) =>
            /\ a_off.label = "OFF"
            /\ a_off.gen = IF ReadyForOn THEN acq ELSE acq - 1)
    /\ [][/\ (delta_a' # delta_a /\ delta_a' # NoResult) =>
                /\ delta_a'.off = a_off /\ delta_a'.off.label = "OFF"
                /\ delta_a'.on.label = "ON"
                /\ delta_a'.on.gen = delta_a'.off.gen + 1
          /\ (ReadyForOn' /\ ~ReadyForOn) =>
                /\ sigq # <<>> /\ Head(sigq).sig = "finished" /\ Head(sigq).label = "OFF"
                /\ a_off' = Head(sigq).result
          /\ spectrometers' # spectrometers => ~(ReadyForOn' \/ AcquiringOn')
          /\ FailureHandled => ~(ReadyForOn' \/ AcquiringOn')]_vars

C33_Witness ==
    /\ Complete /\ delta_a # NoResult
    /\ delta_a.off.gen = 2 /\ delta_a.on.gen = 3 /\ a_off.gen = 2
    /\ Len(delta_a.off.ts_ref_list) = n_scans

\* C34: from the start of the OFF acquisition to the handling of the result
\* of the ON acquisition (UI states measuring and ready_for_on) the shot
\* count cannot be edited and no integration time is applied to a channel;
\* each worker takes the shot count of the spin box, so the two aggregates
\* that are combined hold the same number of shots, taken with the
\* integration time applied by start_off.
C34_SameSettingsForOffAndOn ==
    /\ [](ui_state \in {"measuring", "ready_for_on"} =>
            /\ worker.n_scans = n_scans
            /\ (ReadyForOn \/ AcquiringOn) => Len(a_off.ts_ref_list) = n_scans)
    /\ [][/\ ui_state \in {"measuring", "ready_for_on"} =>
                (n_scans' = n_scans /\ integ' = integ)
          /\ (delta_a' # delta_a /\ delta_a' # NoResult) =>
                /\ Len(delta_a'.off.ts_ref_list) = n_scans
                /\ Len(delta_a'.on.ts_ref_list) = n_scans
                /\ Len(delta_a'.off.ts_probe_list) = Len(delta_a'.on.ts_probe_list)]_vars

C34_Witness ==
    /\ Complete /\ delta_a # NoResult /\ delta_a.on.gen = 3 /\ worker.gen = 3
    /\ Len(delta_a.off.ts_ref_list) = MaxScans /\ Len(delta_a.on.ts_ref_list) = MaxScans
    /\ \A c \in Channels : integ[c] = 2000

\* the handler returned without starting a worker and without touching the
\* session: UI state, stored aggregates, results, worker and thread
SessionUntouched ==
    /\ ~AcquisitionStarts /\ acq' = acq
    /\ UNCHANGED <<ui_state, ui_caller, a_off, a_on, delta_a, report_text, spectrometers>>
    /\ UNCHANGED <<worker, w_pc, thread_running, active, sigq, dev>>

\* C35 (as claimed): a declined confirmation of start_off or start_on starts
\* no worker and leaves the session state and the stored aggregates
\* unchanged; a failure to apply the integration time in start_off starts no
\* worker and leaves the session in Initialized.
C35_DeclineOrIntegFailureKeepsInitialized ==
    [][/\ \A integ_us \in IntegMicros :
            start_off_measurement(integ_us, "ok", "No") => SessionUntouched
       /\ start_on_measurement("No") => SessionUntouched
       /\ \A integ_us \in IntegMicros, outcome \in IntegOutcomes \ {"ok"}, reply \in {"Yes", "No"} :
            start_off_measurement(integ_us, outcome, reply) =>
                (SessionUntouched /\ Initialized')]_vars

\* C35 (amended): a declined confirmation of start_off or start_on starts no
\* worker and leaves the session state and the stored aggregates unchanged
\* (start_off has applied the integration time by then); a failure to apply
\* the integration time in start_off starts no worker and leaves the
\* session in the state it was in, Initialized or Complete, the channels
\* before the failing one holding the new integration time.
C35_DeclineOrIntegFailureKeepsSession ==
    [][/\ \A integ_us \in IntegMicros :
            start_off_measurement(integ_us, "ok", "No") =>
                (SessionUntouched /\ \A c \in Channels : integ'[c] = integ_us)
       /\ start_on_measurement("No") => (SessionUntouched /\ integ' = integ)
       /\ \A integ_us \in IntegMicros, outcome \in IntegOutcomes \ {"ok"}, reply \in {"Yes", "No"} :
            start_off_measurement(integ_us, outcome, reply) =>
                /\ SessionUntouched
                /\ (Initialized /\ Initialized') \/ (Complete /\ Complete')
                /\ integ'["probe"] = integ["probe"]]_vars

\* the integration time could not be applied to the probe channel when
\* start_off was clicked in Complete
C35_Witness ==
    /\ Complete /\ delta_a # NoResult /\ UserCan
    /\ integ["ref"] # integ["probe"]
    /\ ~pump_on_button_enabled(ui_state)
    /\ \E integ_us \in IntegMicros : ENABLED start_off_measurement(integ_us, "ok", "No")

C37_ConnectDisconnect ==
    /\ [][/\ \A device_id \in DeviceIds, outcome \in ConnectOutcomes :
                (ctl.spectrometer # NoDevice /\ ctl_connect(device_id, outcome)) =>
                    (ctl'.call.raised /\ ChannelStateUnchanged)
          /\ \A close_ok \in BOOLEAN :
                (ctl.spectrometer # NoDevice /\ ctl_disconnect(close_ok)) =>
                    /\ ctl'.spectrometer = NoDevice
                    /\ ctl'.wavelengths = 0
                    /\ ctl'.integration_time_limits = <<0, 0>>
                    /\ ~ctl'.call.raised
                    /\ ctl'.device[ctl.spectrometer].open = ~close_ok
          /\ \A close_ok \in BOOLEAN :
                (ctl.spectrometer = NoDevice /\ ctl_disconnect(close_ok)) =>
                    (~ctl'.call.raised /\ ChannelStateUnchanged)]_vars
    /\ [](/\ is_connected <=> ctl.spectrometer \in DeviceIds
          /\ ctl.spectrometer \in DeviceIds => ctl.device[ctl.spectrometer].open
          /\ ctl.spectrometer \notin DeviceIds =>
                (ctl.wavelengths = 0 /\ ctl.integration_time_limits = <<0, 0>>))

\* connect(2) was refused on a controller bound to device 1, whose earlier
\* binding to device 2 had ended with a failed close
C37_Witness ==
    /\ ctl.spectrometer = 1 /\ ctl.wavelengths = get_wavelengths_size[1]
    /\ ctl.integration_time_limits = get_integration_time_limits[1]
    /\ ctl.call = [op |-> "connect", arg |-> 2, raised |-> TRUE, value |-> -1]
    /\ ctl.device[2].open

\* the places where the spectrum shown by tree item i is stored: the
\* top-level entry of its label, and the members of group lists with its
\* label (group |-> the key of the group, k |-> the position; k = 0 for
\* the top-level entry)
StoredAt(i) ==
    LET sd == lib.spectra_data
        groups == {y \in DOMAIN sd : sd[y].type = "group"}
    IN  {[group |-> y, k |-> 0] :
            y \in {x \in DOMAIN sd : /\ x = i.text
                                     /\ sd[x].type = "spectrum"
                                     /\ sd[x].payload = SpectrumData(i.id)}}
        \cup {p \in [group : groups, k : 1..MaxItems] :
                 /\ p.k <= Len(sd[p.group].payload.list)
                 /\ sd[p.group].payload.list[p.k].label = i.text
                 /\ sd[p.group].payload.list[p.k].payload = SpectrumData(i.id)}

\* C38 (as claimed): after any sequence of acquire, CSV import, group,
\* ungroup, rename and delete, no operation has failed, every spectrum shown
\* in the tree is stored exactly once (as the top-level entry of its label or
\* as a member of exactly one group list), and the top-level items of the
\* tree have distinct names.
C38_LibraryConsistent ==
    /\ lib.raised = "None"
    /\ \A i \in lib.tree : ~i.is_group => Cardinality(StoredAt(i)) = 1
    /\ \A i, j \in lib.tree : (i.parent = 0 /\ j.parent = 0 /\ i.text = j.text) => i = j

\* the spectrum of tree item i is a top-level entry with its label, data
\* and timestamp, and the item is at top level
RestoredToTopLevel(l, i) ==
    /\ i.text \in DOMAIN l.spectra_data
    /\ l.spectra_data[i.text] = Entry("spectrum", SpectrumData(i.id), i.ts)
    /\ [i EXCEPT !.parent = 0] \in l.tree

\* C39 (as claimed): ungrouping members of a group made of spectra restores
\* each of them as a top-level spectrum with its label, data and timestamp;
\* when at most one member is left, the group is dissolved: the remaining
\* member is restored to top level too, the group item leaves the tree and
\* spectra_data holds no group under the label of the group.
C39_UngroupRestores ==
    [][\A selected_items \in Selections(lib.tree) :
          (/\ UngroupSelected(lib.tree, selected_items)
           /\ \A i \in lib.tree :
                 i.parent = selected_items[1].parent =>
                    (~i.is_group /\ Cardinality(StoredAt(i)) = 1)
           /\ toggle_group_action(selected_items))
          => LET group_item == ParentItem(lib.tree, selected_items[1])
                 rest == {i \in lib.tree : i.parent = group_item.id} \ Range(selected_items)
             IN  /\ lib'.raised = "None"
                 /\ \A i \in Range(selected_items) : RestoredToTopLevel(lib', i)
                 /\ Cardinality(rest) <= 1 =>
                       /\ \A i \in rest : RestoredToTopLevel(lib', i)
                       /\ group_item \notin lib'.tree
                       /\ ~(/\ group_item.text \in DOMAIN lib'.spectra_data
                            /\ lib'.spectra_data[group_item.text].type = "group")
                 /\ Cardinality(rest) > 1 =>
                       /\ group_item \in lib'.tree
                       /\ \A i \in rest : i \in lib'.tree]_vars

====
